---------------------------- MODULE Spec2Model ----------------------------
(***************************************************************************)
(* A model of kitten-tts-js: the phoneme tokenizer (src/text-cleaner.js),  *)
(* the text chunker and the per-chunk orchestration of KittenTTS           *)
(* (src/kitten-tts.js).                                                    *)
(*                                                                         *)
(* A JavaScript string is modelled as the sequence of its UTF-16 code      *)
(* units (integers); the empty string is << >>.                            *)
(***************************************************************************)
EXTENDS Integers, Sequences, FiniteSets, TLC

VARIABLES
    \* ---- tokenizer (text-cleaner.js)
    tpc,        \* "start" | "textToIds" | "clean": which export was called
    phonemes,   \* the argument string
    ids,        \* the value textToIds returned
    tokenIds,   \* the value TextCleaner.clean returned
    \* ---- chunker (kitten-tts.js: _chunkText, _ensurePunctuation)
    cpc,        \* "start" | "chunked" | "ensured": which method was called
    text,       \* the argument string
    chunks,     \* the array _chunkText returned
    ensured,    \* the string _ensurePunctuation returned
    \* ---- KittenTTS.generate / stream (kitten-tts.js)
    tts,        \* the instance: [voices, voiceAliases, speedPriors]
    call,       \* the call: [mode, text, voice, speed, clean]
    gpc,        \* where the call is: "start", "loop", "phonemizing",
                \* "infer", "inferring", "yielded", "done", "failed",
                \* "returned"
    gchunks,    \* const chunks
    gidx,       \* the position of the for ... of loop in chunks (from 1)
    ginputs,    \* const inputs, the value _prepareInputs returned
    audioChunks,\* generate: const audioChunks
    yielded,    \* stream: the items yielded so far
    gresult,    \* generate: the samples of the RawAudio returned
    gerror,     \* the error the call failed with
    phonLog,    \* the calls made to phonemize
    infLog,     \* the calls made to session.run
    outLog,     \* the lengths of the waveforms session.run returned
    \* ---- preprocess.js: number_to_words, TextPreprocessor.process
    ppc,        \* "start" | "number_to_words" | "process"
    pn,         \* the argument of number_to_words
    ptext,      \* the argument of process
    pwords,     \* the string number_to_words returned
    pout,       \* the string process returned
    \* ---- npz-loader.js: loadNpz
    zpc,        \* "start" | "awaiting" | "resolved" | "rejected"
    zfiles,     \* zip.files, each entry with how it was written
    zstage,     \* per entry: "skipped" (filtered out), "reading" (at its
                \* await), "fulfilled" or "rejected" (its promise settled)
    zresult,    \* const result
    zreturned,  \* the mapping the caller obtained
    zerror,     \* the error loadNpz rejected with
    \* ---- phonemizer.js: getEspeakInstance, phonemize
    espeakInstance, \* the module's cached instance, 0 for null
    workers,    \* how many eSpeakNGWorker instances were constructed
    phpc,       \* per phonemize call: "idle" (not made yet), "importing",
                \* "initializing" (the awaits of getEspeakInstance),
                \* "ready" (getEspeakInstance has returned), "done"
    phinst,     \* per phonemize call: the instance it uses, 0 for none
    \* ---- docs/worker.js: self.onmessage
    wmsgs,      \* the messages posted to the worker, each [type, id]
    wnext,      \* how many of them onmessage was called with
    wKittenTTS, \* let KittenTTS: whether the library is imported
    wtts,       \* let tts: the model instance, 0 for null
    wmodels,    \* per model instance: "loaded", "releasing", "released"
    wpc,        \* per message, where its handler is: "queued",
                \* "importing", "releasing", "loading", "generating",
                \* "inferring", "done"
    winst,      \* per message: the instance a generate handler runs
                \* tts.generate on, or an init handler releases; 0 for none
    wleft,      \* per generate handler: the chunks still to infer
    wreplies    \* the messages posted back, each [type, id]

tokVars == <<tpc, phonemes, ids, tokenIds>>

chunkVars == <<cpc, text, chunks, ensured>>

genVars ==
    <<tts, call, gpc, gchunks, gidx, ginputs, audioChunks, yielded, gresult,
      gerror, phonLog, infLog, outLog>>

preVars == <<ppc, pn, ptext, pwords, pout>>

npzVars == <<zpc, zfiles, zstage, zresult, zreturned, zerror>>

phonVars == <<espeakInstance, workers, phpc, phinst>>

workerVars ==
    <<wmsgs, wnext, wKittenTTS, wtts, wmodels, wpc, winst, wleft, wreplies>>

vars ==
    <<tokVars, chunkVars, genVars, preVars, npzVars, phonVars, workerVars>>

\* The variables of a component no call is made to.
TokIdle == tpc = "idle" /\ phonemes = << >> /\ ids = << >> /\ tokenIds = << >>

ChunkIdle == cpc = "idle" /\ text = << >> /\ chunks = << >> /\ ensured = << >>

GenIdle ==
    /\ gpc = "idle"
    /\ tts = << >> /\ call = << >>
    /\ gchunks = << >> /\ gidx = 0 /\ ginputs = << >>
    /\ audioChunks = << >> /\ yielded = << >> /\ gresult = << >>
    /\ gerror = << >> /\ phonLog = << >> /\ infLog = << >>
    /\ outLog = << >>

PreIdle ==
    ppc = "idle" /\ pn = 0 /\ ptext = << >> /\ pwords = << >> /\ pout = << >>

NpzIdle ==
    /\ zpc = "idle" /\ zfiles = << >> /\ zstage = << >>
    /\ zresult = << >> /\ zreturned = << >> /\ zerror = ""

PhonIdle ==
    espeakInstance = 0 /\ workers = 0 /\ phpc = << >> /\ phinst = << >>

WorkerIdle ==
    /\ wmsgs = << >> /\ wnext = 0 /\ wKittenTTS = FALSE /\ wtts = 0
    /\ wmodels = << >> /\ wpc = << >> /\ winst = << >> /\ wleft = << >>
    /\ wreplies = << >>

----------------------------------------------------------------------------
(* Generic helpers.                                                        *)

Min(a, b) == IF a <= b THEN a ELSE b

Max(a, b) == IF a >= b THEN a ELSE b

Last(s) == s[Len(s)]

\* All sequences over S of length 0..n.
SeqsUpTo(S, n) == UNION { [1..k -> S] : k \in 0..n }

----------------------------------------------------------------------------
(* text-cleaner.js: the symbol table.                                      *)

_pad == <<36>>

_punctuation ==
    <<59, 58, 44, 46, 33, 63, 161, 191, 8212, 8230, 34, 171, 187, 34, 34,
      32>>

_letters ==
    <<65, 66, 67, 68, 69, 70, 71, 72, 73, 74, 75, 76, 77, 78, 79, 80, 81,
      82, 83, 84, 85, 86, 87, 88, 89, 90, 97, 98, 99, 100, 101, 102, 103,
      104, 105, 106, 107, 108, 109, 110, 111, 112, 113, 114, 115, 116, 117,
      118, 119, 120, 121, 122>>

_letters_ipa ==
    <<593, 592, 594, 230, 595, 665, 946, 596, 597, 231, 599, 598, 240, 676,
      601, 600, 602, 603, 604, 605, 606, 607, 644, 609, 608, 610, 667, 614,
      615, 295, 613, 668, 616, 618, 669, 621, 620, 619, 622, 671, 625, 623,
      624, 331, 627, 626, 628, 248, 629, 632, 952, 339, 630, 664, 633, 634,
      638, 635, 640, 641, 637, 642, 643, 648, 679, 649, 650, 651, 11377,
      652, 611, 612, 653, 967, 654, 655, 657, 656, 658, 660, 673, 661, 674,
      448, 449, 450, 451, 712, 716, 720, 721, 700, 692, 688, \* ... ʼ ʴ ʰ
      689, 690, 695, 736, 740, 734, 8595, 8593, 8594, 8599, 8600, 39, 809,
      39, 7547>>

\* Every symbol is one code point of the Basic Multilingual Plane, so the
\* spread [..._punctuation] yields one entry per code unit.
SYMBOLS == _pad \o _punctuation \o _letters \o _letters_ipa

\* Map.prototype.set as the forEach callback uses it: a later set of the
\* same key overwrites the earlier value.
SetSymbolKeepFirst(m, s, i) == m @@ (s :> i)

SetSymbol(m, s, i) == (s :> i) @@ m

\* SYMBOLS.forEach((s, i) => SYMBOL_TO_ID.set(s, i)) over the 0-based
\* indices lo..hi, in increasing order. The range is halved, and the first
\* half's map examined before the second half runs, only to keep the
\* evaluation shallow and strict; the sets happen in forEach's order.
RECURSIVE ForEachSymbol(_, _, _)
ForEachSymbol(lo, hi, m) ==
    IF lo = hi THEN SetSymbol(m, SYMBOLS[lo + 1], lo)
    ELSE LET mid == (lo + hi) \div 2
             first == ForEachSymbol(lo, mid, m)
         IN  IF DOMAIN first = {} THEN first
             ELSE ForEachSymbol(mid + 1, hi, first)

SYMBOL_TO_ID == ForEachSymbol(0, Len(SYMBOLS) - 1, << >>)

vocabSize == Len(SYMBOLS)

----------------------------------------------------------------------------
(* String iteration by code point (for ... of).                            *)

IsHighSurrogate(u) == u >= 55296 /\ u <= 56319

IsLowSurrogate(u) == u >= 56320 /\ u <= 57343

\* The code points the string iterator yields: a high surrogate followed by
\* a low surrogate is one code point, any other unit is taken alone.
RECURSIVE CodePoints(_)
CodePoints(s) ==
    IF s = << >> THEN << >>
    ELSE IF Len(s) >= 2 /\ IsHighSurrogate(s[1]) /\ IsLowSurrogate(s[2])
         THEN <<65536 + (s[1] - 55296) * 1024 + (s[2] - 56320)>>
              \o CodePoints(SubSeq(s, 3, Len(s)))
         ELSE <<s[1]>> \o CodePoints(Tail(s))

----------------------------------------------------------------------------
(* text-cleaner.js: textToIds and TextCleaner.clean.                       *)

\* One iteration of the loop body of textToIds.
PushIdOrPad(acc, ch) ==
    IF ch \in DOMAIN SYMBOL_TO_ID THEN Append(acc, SYMBOL_TO_ID[ch])
    ELSE Append(acc, 0)

PushId(acc, ch) ==
    IF ch \in DOMAIN SYMBOL_TO_ID THEN Append(acc, SYMBOL_TO_ID[ch])
    ELSE acc

RECURSIVE TextToIdsLoop(_, _)
TextToIdsLoop(cps, acc) ==
    IF cps = << >> THEN acc
    ELSE TextToIdsLoop(Tail(cps), PushId(acc, Head(cps)))

textToIds(txt) == TextToIdsLoop(CodePoints(txt), << >>)

cleanNoTrailingPad(p) == <<0>> \o textToIds(p) \o <<10>>

clean(p) == <<0>> \o textToIds(p) \o <<10, 0>>

----------------------------------------------------------------------------
(* Tokenizer specification: a phoneme string is drawn, then one of the     *)
(* two exports is applied to it.                                           *)

MaxPhonemeLen == 3

\* '$'  ','  '"' (three times in the table)  "'" (twice)  'a'  NUL (absent)
\* and the two halves of U+1F600 (absent, one code point).
TokAlphabet == {36, 44, 34, 39, 97, 0, 55357, 56832}

TokInit ==
    /\ tpc = "start"
    /\ phonemes \in SeqsUpTo(TokAlphabet, MaxPhonemeLen)
    /\ ids = << >>
    /\ tokenIds = << >>
    /\ ChunkIdle /\ GenIdle /\ PreIdle /\ NpzIdle /\ PhonIdle /\ WorkerIdle

CallTextToIds ==
    /\ tpc = "start"
    /\ tpc' = "textToIds"
    /\ ids' = textToIds(phonemes)
    /\ UNCHANGED <<phonemes, tokenIds>>

CallClean ==
    /\ tpc = "start"
    /\ tpc' = "clean"
    /\ tokenIds' = clean(phonemes)
    /\ UNCHANGED <<phonemes, ids>>

TokNext ==
    /\ CallTextToIds \/ CallClean
    /\ UNCHANGED <<chunkVars, genVars, preVars, npzVars, phonVars, workerVars>>

SpecTok == TokInit /\ [][TokNext]_vars

----------------------------------------------------------------------------
(* Properties of the tokenizer.                                            *)

InTable(cp) == \E k \in 1..Len(SYMBOLS) : SYMBOLS[k] = cp

\* The code points of a string that occur in the symbol table, in order.
Supported(txt) == SelectSeq(CodePoints(txt), InTable)

\* The highest 0-based index at which cp occurs in the table.
LastIndexOf(cp) ==
    CHOOSE k \in 0..(Len(SYMBOLS) - 1) :
        /\ SYMBOLS[k + 1] = cp
        /\ \A j \in (k + 1)..(Len(SYMBOLS) - 1) : SYMBOLS[j + 1] # cp

\* C1: clean(p) starts with 0, ends with 10 then 0, and has as many
\* elements as p has code points in the table plus 3; clean("") is exactly
\* [0, 10, 0].
C1_CleanFraming ==
    tpc = "clean" =>
        LET n == Len(tokenIds) IN
        /\ n = Len(Supported(phonemes)) + 3
        /\ tokenIds[1] = 0
        /\ tokenIds[n - 1] = 10
        /\ tokenIds[n] = 0
        /\ (phonemes = << >> => tokenIds = <<0, 10, 0>>)

\* clean was applied to a string with both supported and dropped code points.
C1_Witness ==
    /\ tpc = "clean"
    /\ Len(tokenIds) = 5
    /\ Len(phonemes) = 3

\* C2: textToIds(p) lists, in input order, a table index of each code point
\* of p that occurs in the table; absent code points contribute nothing, so
\* an input of unsupported code points only gives the empty list.
C2_TextToIdsIndexes ==
    tpc = "textToIds" =>
        LET q == Supported(phonemes) IN
        /\ Len(ids) = Len(q)
        /\ \A k \in 1..Len(ids) :
              /\ ids[k] \in 0..(Len(SYMBOLS) - 1)
              /\ SYMBOLS[ids[k] + 1] = q[k]
        /\ (q = << >> => ids = << >>)

\* textToIds was applied to a string mixing supported and unsupported code
\* points (a surrogate pair among them).
C2_Witness ==
    /\ tpc = "textToIds"
    /\ phonemes = <<55357, 56832, 97>>
    /\ ids = <<43>>

\* C3: TextCleaner.vocabSize, the length of SYMBOLS, is at least 188.
C3_VocabSizeAtLeast188 ==
    tpc = "clean" => vocabSize >= 188

\* C4: '$' is at index 0, every id textToIds emits lies in [0, vocabSize)
\* and a symbol that occurs more than once in the table is tokenized to its
\* last index, never to the index of an earlier occurrence.
C4_LastDuplicateWins ==
    /\ SYMBOLS[1] = 36
    /\ tpc = "textToIds" =>
          LET q == Supported(phonemes) IN
          \A k \in 1..Len(ids) :
              /\ ids[k] >= 0
              /\ ids[k] < vocabSize
              /\ k <= Len(q) => ids[k] = LastIndexOf(q[k])
              /\ \A j \in (ids[k] + 1)..(vocabSize - 1) :
                    SYMBOLS[j + 1] # SYMBOLS[ids[k] + 1]

\* textToIds tokenized '"' (indices 11, 14, 15) and "'" (indices 174, 176).
C4_Witness ==
    /\ tpc = "textToIds"
    /\ phonemes = <<34, 39>>
    /\ ids = <<15, 176>>

----------------------------------------------------------------------------
(* kitten-tts.js: strings, String.prototype.trim and split.                *)

MAX_CHUNK_CHARS == 400

\* The class [.!?] of the sentence split.
SentenceEnds == {46, 33, 63}

IsSentenceEnd(u) == u \in SentenceEnds

\* WhiteSpace and LineTerminator code units: what trim() strips and what \s
\* matches.
WhiteSpace ==
    {9, 10, 11, 12, 13, 32, 160, 5760, 8232, 8233, 8239, 8287, 12288, 65279}
        \cup (8192..8202)

IsWhiteSpace(u) == u \in WhiteSpace

\* text.trim(): without its leading and trailing white space.
Trim(s) ==
    LET n == Len(s) IN
    IF \A i \in 1..n : IsWhiteSpace(s[i]) THEN << >>
    ELSE LET lead == CHOOSE k \in 0..(n - 1) :
                        /\ ~IsWhiteSpace(s[k + 1])
                        /\ \A j \in 1..k : IsWhiteSpace(s[j])
             trail == CHOOSE k \in 0..(n - 1) :
                        /\ ~IsWhiteSpace(s[n - k])
                        /\ \A j \in 0..(k - 1) : IsWhiteSpace(s[n - j])
         IN  SubSeq(s, lead + 1, n - trail)

\* The k-th smallest element of a finite set of integers (k from 1).
KthSmallest(S, k) ==
    CHOOSE x \in S : Cardinality({y \in S : y < x}) = k - 1

\* s.split(/[c]+/) for a character class c, given as the set seps: the
\* pieces of s between the maximal runs of separators, the empty pieces
\* before a leading and after a trailing run included.
Split(s, seps) ==
    LET n == Len(s)
        starts == {i \in 1..n : s[i] \in seps
                                 /\ (i = 1 \/ s[i - 1] \notin seps)}
        ends == {i \in 1..n : s[i] \in seps
                               /\ (i = n \/ s[i + 1] \notin seps)}
        m == Cardinality(starts)
    IN  [k \in 1..(m + 1) |->
            SubSeq(s,
                   IF k = 1 THEN 1 ELSE KthSmallest(ends, k - 1) + 1,
                   IF k = m + 1 THEN n ELSE KthSmallest(starts, k) - 1)]

----------------------------------------------------------------------------
(* kitten-tts.js: _ensurePunctuation and _chunkText.                       *)

\* ['.', '!', '?', ',', ';', ':']
PUNCTUATION == {46, 33, 63, 44, 59, 58}

_ensurePunctuationPeriod(t0) ==
    LET t == Trim(t0) IN
    IF t = << >> THEN t
    ELSE IF Last(t) \notin PUNCTUATION THEN t \o <<46>>
    ELSE t

_ensurePunctuation(t0) ==
    LET t == Trim(t0) IN
    IF t = << >> THEN t
    ELSE IF Last(t) \notin PUNCTUATION THEN t \o <<44>>
    ELSE t

\* One iteration of the loop over the words of a long sentence; st is
\* [tempChunk, chunks].
WordStepDropWord(st, word) ==
    IF Len(st.tempChunk) + Len(word) + 1 <= MAX_CHUNK_CHARS
    THEN [st EXCEPT !.tempChunk =
              IF st.tempChunk # << >> THEN st.tempChunk \o <<32>> \o word
              ELSE word]
    ELSE [tempChunk |-> << >>,
          chunks |-> IF st.tempChunk # << >>
                     THEN Append(st.chunks,
                                 _ensurePunctuation(Trim(st.tempChunk)))
                     ELSE st.chunks]

WordStep(st, word) ==
    IF Len(st.tempChunk) + Len(word) + 1 <= MAX_CHUNK_CHARS
    THEN [st EXCEPT !.tempChunk =
              IF st.tempChunk # << >> THEN st.tempChunk \o <<32>> \o word
              ELSE word]
    ELSE [tempChunk |-> word,
          chunks |-> IF st.tempChunk # << >>
                     THEN Append(st.chunks,
                                 _ensurePunctuation(Trim(st.tempChunk)))
                     ELSE st.chunks]

\* for (const word of words), from the j-th word on.
RECURSIVE WordsLoop(_, _, _)
WordsLoop(words, j, st) ==
    IF j > Len(words) THEN st
    ELSE WordsLoop(words, j + 1, WordStep(st, words[j]))

\* The else branch of _chunkText: a sentence longer than MAX_CHUNK_CHARS is
\* split by words; returns the chunks array after it.
SplitLongSentence(sentence, acc) ==
    LET words == Split(sentence, WhiteSpace)
        st == WordsLoop(words, 1, [tempChunk |-> << >>, chunks |-> acc])
    IN  IF st.tempChunk # << >>
        THEN Append(st.chunks, _ensurePunctuation(Trim(st.tempChunk)))
        ELSE st.chunks

\* One iteration of the loop over the sentences.
SentenceStepKeepBlank(acc, s) ==
    LET sentence == Trim(s) IN
    IF Len(sentence) <= MAX_CHUNK_CHARS
    THEN Append(acc, _ensurePunctuation(sentence))
    ELSE SplitLongSentence(sentence, acc)

SentenceStep(acc, s) ==
    LET sentence == Trim(s) IN
    IF sentence = << >> THEN acc
    ELSE IF Len(sentence) <= MAX_CHUNK_CHARS
         THEN Append(acc, _ensurePunctuation(sentence))
         ELSE SplitLongSentence(sentence, acc)

\* for (const s of sentences), from the i-th sentence on.
RECURSIVE SentencesLoop(_, _, _)
SentencesLoop(sentences, i, acc) ==
    IF i > Len(sentences) THEN acc
    ELSE SentencesLoop(sentences, i + 1, SentenceStep(acc, sentences[i]))

_chunkText(t) == SentencesLoop(Split(t, SentenceEnds), 1, << >>)

----------------------------------------------------------------------------
(* Chunker specification: a text is drawn, then _chunkText or              *)
(* _ensurePunctuation is applied to it. A text is a concatenation of up to *)
(* MaxRuns runs of one character; only letters come in long runs, of the   *)
(* lengths around MAX_CHUNK_CHARS and its half.                            *)

MaxRuns == 4

\* 'a', 'b'
ChunkLetters == {97, 98}

\* ' ', '.', ',', '?'
ChunkMarks == {32, 46, 44, 63}

LongRunLens ==
    {MAX_CHUNK_CHARS \div 2 - 1, MAX_CHUNK_CHARS \div 2, MAX_CHUNK_CHARS}

Runs ==
    (ChunkLetters \X {1}) \cup (ChunkMarks \X {1})
        \cup ({97} \X LongRunLens)

Expand(run) == [i \in 1..run[2] |-> run[1]]

RECURSIVE Flatten(_)
Flatten(rs) ==
    IF rs = << >> THEN << >> ELSE Expand(Head(rs)) \o Flatten(Tail(rs))

ChunkTexts == { Flatten(rs) : rs \in SeqsUpTo(Runs, MaxRuns) }

ChunkInit ==
    /\ cpc = "start"
    /\ text \in ChunkTexts
    /\ chunks = << >>
    /\ ensured = << >>
    /\ TokIdle /\ GenIdle /\ PreIdle /\ NpzIdle /\ PhonIdle /\ WorkerIdle

CallChunkText ==
    /\ cpc = "start"
    /\ cpc' = "chunked"
    /\ chunks' = _chunkText(text)
    /\ UNCHANGED <<text, ensured>>

CallEnsurePunctuation ==
    /\ cpc = "start"
    /\ cpc' = "ensured"
    /\ ensured' = _ensurePunctuation(text)
    /\ UNCHANGED <<text, chunks>>

ChunkNext ==
    /\ CallChunkText \/ CallEnsurePunctuation
    /\ UNCHANGED <<tokVars, genVars, preVars, npzVars, phonVars, workerVars>>

SpecChunk == ChunkInit /\ [][ChunkNext]_vars

----------------------------------------------------------------------------
(* Properties of the chunker.                                              *)

IsAlnum(u) ==
    \/ (u >= 48 /\ u <= 57)
    \/ (u >= 65 /\ u <= 90)
    \/ (u >= 97 /\ u <= 122)

Alnum(s) == SelectSeq(s, IsAlnum)

RECURSIVE JoinAll(_)
JoinAll(ss) == IF ss = << >> THEN << >> ELSE Head(ss) \o JoinAll(Tail(ss))

\* The text is k >= 1 sentences: each a non-blank stretch free of . ! ?, of
\* trimmed length at most MAX_CHUNK_CHARS, closed by one of . ! ?
IsSentences(t) ==
    LET pieces == Split(t, SentenceEnds) IN
    /\ t # << >>
    /\ IsSentenceEnd(Last(t))
    /\ \A i \in 1..(Len(t) - 1) :
          ~(IsSentenceEnd(t[i]) /\ IsSentenceEnd(t[i + 1]))
    /\ \A k \in 1..(Len(pieces) - 1) :
          /\ Trim(pieces[k]) # << >>
          /\ Len(Trim(pieces[k])) <= MAX_CHUNK_CHARS

NumSentences(t) == Cardinality({i \in 1..Len(t) : IsSentenceEnd(t[i])})

\* C5: every chunk _chunkText returns has at most MAX_CHUNK_CHARS (400)
\* characters, appended punctuation counted.
C5_ChunksWithinBudget ==
    cpc = "chunked" =>
        \A i \in 1..Len(chunks) : Len(chunks[i]) <= MAX_CHUNK_CHARS

\* C6: every chunk is non-empty and ends with one of . ! ? , ; : and
\* _ensurePunctuation returns the trimmed text with exactly one comma
\* appended when it is non-empty and does not end in one of them, the
\* trimmed text unchanged otherwise, and "" for empty input.
C6_ChunksEndWithPunctuation ==
    /\ cpc = "chunked" =>
          \A i \in 1..Len(chunks) :
              /\ chunks[i] # << >>
              /\ Last(chunks[i]) \in {46, 33, 63, 44, 59, 58}
    /\ cpc = "ensured" =>
          LET t == Trim(text) IN
          /\ text = << >> => ensured = << >>
          /\ (t # << >> /\ Last(t) \notin {46, 33, 63, 44, 59, 58})
                => ensured = t \o <<44>>
          /\ (t = << >> \/ Last(t) \in {46, 33, 63, 44, 59, 58})
                => ensured = t

\* _ensurePunctuation trimmed white space off a text and appended a comma.
C6_Witness ==
    /\ cpc = "ensured"
    /\ Len(Trim(text)) < Len(text)
    /\ ensured = Trim(text) \o <<44>>

\* C7 as claimed: k sentences, each closed by . ! or ? and at most 400
\* characters long, give exactly k chunks, each ending in one of . ! ?
C7_SentenceChunksKeepTerminator ==
    (cpc = "chunked" /\ IsSentences(text)) =>
        /\ Len(chunks) = NumSentences(text)
        /\ \A i \in 1..Len(chunks) : Last(chunks[i]) \in {46, 33, 63}

\* C7 as amended: k such sentences give exactly k chunks, each ending in one
\* of , ; : (the split removes the terminator and a comma is appended unless
\* the sentence text already ends in , ; or :).
C7_SentenceChunksEndInComma ==
    (cpc = "chunked" /\ IsSentences(text)) =>
        /\ Len(chunks) = NumSentences(text)
        /\ \A i \in 1..Len(chunks) : Last(chunks[i]) \in {44, 59, 58}

\* A text of two terminated sentences was chunked.
C7_Witness ==
    /\ cpc = "chunked"
    /\ IsSentences(text)
    /\ NumSentences(text) = 2
    /\ Len(chunks) = 2

\* C8: the alphanumeric characters of the chunks, concatenated in chunk
\* order, are the alphanumeric characters of the input in their order.
C8_AlnumPreserved ==
    cpc = "chunked" => Alnum(JoinAll(chunks)) = Alnum(text)

\* One sentence longer than MAX_CHUNK_CHARS, with both letters, was split
\* by words into two chunks.
C8_Witness ==
    /\ cpc = "chunked"
    /\ Len(chunks) = 2
    /\ Len(text) > MAX_CHUNK_CHARS
    /\ \A i \in 1..Len(text) : ~IsSentenceEnd(text[i])
    /\ \E i \in 1..Len(text) : text[i] = 98

----------------------------------------------------------------------------
(* text-cleaner.js: basic_english_tokenize.                                *)

\* [\p{L}\p{M}\p{N}_] on ASCII and on the code points of the symbol table:
\* of the IPA block all but U+02DE, the five arrows and the apostrophe are
\* letters or marks.
IsWordChar(u) ==
    \/ IsAlnum(u)
    \/ u = 95
    \/ /\ \E k \in 1..Len(_letters_ipa) : _letters_ipa[k] = u
       /\ u \notin {734, 8595, 8593, 8594, 8599, 8600, 39}

\* text.match(/[\w]+|[^\w\s]/gu) from the i-th unit on (units of the Basic
\* Multilingual Plane): cur is the word being read, acc the matches so far.
RECURSIVE MatchTokens(_, _, _, _)
MatchTokens(s, i, cur, acc) ==
    IF i > Len(s) THEN (IF cur # << >> THEN Append(acc, cur) ELSE acc)
    ELSE IF IsWordChar(s[i]) THEN MatchTokens(s, i + 1, Append(cur, s[i]), acc)
    ELSE LET acc1 == IF cur # << >> THEN Append(acc, cur) ELSE acc IN
         IF IsWhiteSpace(s[i]) THEN MatchTokens(s, i + 1, << >>, acc1)
         ELSE MatchTokens(s, i + 1, << >>, Append(acc1, <<s[i]>>))

basic_english_tokenize(s) == MatchTokens(s, 1, << >>, << >>)

\* tokens.join(' ')
RECURSIVE JoinWithSpace(_)
JoinWithSpace(tokens) ==
    IF tokens = << >> THEN << >>
    ELSE IF Len(tokens) = 1 THEN tokens[1]
    ELSE tokens[1] \o <<32>> \o JoinWithSpace(Tail(tokens))

----------------------------------------------------------------------------
(* preprocess.js: number_to_words, float_to_words and                      *)
(* TextPreprocessor.process.                                                *)

\* The words of 0 (empty) to 19, by index + 1.
_ONES ==
    << << >>,   \* ""
       <<111, 110, 101>>,   \* "one"
       <<116, 119, 111>>,   \* "two"
       <<116, 104, 114, 101, 101>>,   \* "three"
       <<102, 111, 117, 114>>,   \* "four"
       <<102, 105, 118, 101>>,   \* "five"
       <<115, 105, 120>>,   \* "six"
       <<115, 101, 118, 101, 110>>,   \* "seven"
       <<101, 105, 103, 104, 116>>,   \* "eight"
       <<110, 105, 110, 101>>,   \* "nine"
       <<116, 101, 110>>,   \* "ten"
       <<101, 108, 101, 118, 101, 110>>,   \* "eleven"
       <<116, 119, 101, 108, 118, 101>>,   \* "twelve"
       <<116, 104, 105, 114, 116, 101, 101, 110>>,
       <<102, 111, 117, 114, 116, 101, 101, 110>>,
       <<102, 105, 102, 116, 101, 101, 110>>,   \* "fifteen"
       <<115, 105, 120, 116, 101, 101, 110>>,   \* "sixteen"
       <<115, 101, 118, 101, 110, 116, 101, 101, 110>>,
       <<101, 105, 103, 104, 116, 101, 101, 110>>,
       <<110, 105, 110, 101, 116, 101, 101, 110>> >>

\* The words of the tens, by index + 1.
_TENS ==
    << << >>,   \* ""
       << >>,   \* ""
       <<116, 119, 101, 110, 116, 121>>,   \* "twenty"
       <<116, 104, 105, 114, 116, 121>>,   \* "thirty"
       <<102, 111, 114, 116, 121>>,   \* "forty"
       <<102, 105, 102, 116, 121>>,   \* "fifty"
       <<115, 105, 120, 116, 121>>,   \* "sixty"
       <<115, 101, 118, 101, 110, 116, 121>>,   \* "seventy"
       <<101, 105, 103, 104, 116, 121>>,   \* "eighty"
       <<110, 105, 110, 101, 116, 121>> >>   \* "ninety"

\* The words of the powers of 1000, by index + 1.
_SCALE ==
    << << >>,   \* ""
       <<116, 104, 111, 117, 115, 97, 110, 100>>,
       <<109, 105, 108, 108, 105, 111, 110>>,   \* "million"
       <<98, 105, 108, 108, 105, 111, 110>>,   \* "billion"
       <<116, 114, 105, 108, 108, 105, 111, 110>> >>

\* parts.join(sep)
RECURSIVE JoinWith(_, _)
JoinWith(parts, sep) ==
    IF parts = << >> THEN << >>
    ELSE IF Len(parts) = 1 THEN parts[1]
    ELSE parts[1] \o sep \o JoinWith(Tail(parts), sep)

\* _three_digits_to_words(n), 0 <= n <= 999
_three_digits_to_words(n) ==
    IF n = 0 THEN << >>
    ELSE LET hundreds == n \div 100
             remainder == n % 100
             p1 == IF hundreds # 0
                   THEN << _ONES[hundreds + 1] \o <<32, 104, 117, 110, 100, 114, 101, 100>> >>
                   ELSE << >>
             p2 == IF remainder < 20
                   THEN IF remainder # 0 THEN << _ONES[remainder + 1] >>
                        ELSE << >>
                   ELSE LET tens_word == _TENS[(remainder \div 10) + 1]
                            ones_word == _ONES[(remainder % 10) + 1]
                        IN  IF ones_word # << >>
                            THEN << tens_word \o <<45>> \o ones_word >>
                            ELSE << tens_word >>
         IN  JoinWith(p1 \o p2, <<32>>)

\* The parts the loop over _SCALE pushes from scale i on (0-based), in the
\* order parts.reverse() leaves them.
RECURSIVE ScaleParts(_, _)
ScaleParts(tempN, i) ==
    IF i >= Len(_SCALE) THEN << >>
    ELSE LET scale == _SCALE[i + 1]
             chunk == tempN % 1000
             chunk_words == _three_digits_to_words(chunk)
             part == IF chunk = 0 THEN << >>
                     ELSE IF scale # << >>
                     THEN << Trim(chunk_words \o <<32>> \o scale) >>
                     ELSE << chunk_words >>
             higher == IF tempN \div 1000 = 0 THEN << >>
                       ELSE ScaleParts(tempN \div 1000, i + 1)
         IN  higher \o part

\* number_to_words without the hundreds form.
RECURSIVE number_to_wordsNoHundreds(_)
number_to_wordsNoHundreds(n) ==
    IF n = 0 THEN <<122, 101, 114, 111>>
    ELSE IF n < 0
    THEN <<110, 101, 103, 97, 116, 105, 118, 101, 32>> \o number_to_wordsNoHundreds(0 - n)
    ELSE JoinWith(ScaleParts(n, 0), <<32>>)

\* number_to_words(n) of an integer n
RECURSIVE number_to_words(_)
number_to_words(n) ==
    IF n = 0 THEN <<122, 101, 114, 111>>
    ELSE IF n < 0
    THEN <<110, 101, 103, 97, 116, 105, 118, 101, 32>> \o number_to_words(0 - n)
    ELSE IF /\ n >= 100 /\ n <= 9999 /\ n % 100 = 0 /\ n % 1000 # 0
            /\ n \div 100 < 20
    THEN _ONES[(n \div 100) + 1] \o <<32, 104, 117, 110, 100, 114, 101, 100>>
    ELSE JoinWith(ScaleParts(n, 0), <<32>>)

\* [0-9]
Digits == 48..57

\* [a-zA-Z]
AsciiLetters == (65..90) \cup (97..122)

\* \w
WordChars == Digits \cup AsciiLetters \cup {95}

\* The end of the longest run of members of S that starts at i (i - 1 when
\* there is none): how far a greedy class+ reaches from i.
RunEnd(t, i, S) ==
    CHOOSE j \in (i - 1)..Len(t) :
        /\ \A k \in i..j : t[k] \in S
        /\ j = Len(t) \/ t[j + 1] \notin S

\* The start of the longest run of members of S that ends at i.
RunStart(t, i, S) ==
    CHOOSE j \in 1..(i + 1) :
        /\ \A k \in j..i : t[k] \in S
        /\ j = 1 \/ t[j - 1] \notin S

\* The value of a string of decimal digits (0 for the empty string).
RECURSIVE ParseDigits(_)
ParseDigits(ds) ==
    IF ds = << >> THEN 0
    ELSE (ParseDigits(SubSeq(ds, 1, Len(ds) - 1)) * 10) + (Last(ds) - 48)

\* isNaN(parseInt(s, 10)) for s without leading white space: no digit
\* after the optional sign.
ParseIntIsNaN(s) ==
    LET body == IF s # << >> /\ s[1] \in {43, 45} THEN Tail(s) ELSE s
    IN  RunEnd(body, 1, Digits) = 0

\* parseInt(s, 10) when it is a number: the digits after the optional
\* sign, up to the first other character.
ParseInt(s) ==
    LET body == IF s # << >> /\ s[1] \in {43, 45} THEN Tail(s) ELSE s
        value == ParseDigits(SubSeq(body, 1, RunEnd(body, 1, Digits)))
    IN  IF s # << >> /\ s[1] = 45 THEN 0 - value ELSE value

\* number_to_words(parseInt(s, 10)): "" when parseInt gives NaN.
NumberWords(s) ==
    IF ParseIntIsNaN(s) THEN << >> ELSE number_to_words(ParseInt(s))

\* digit_map / dmap: the word of one digit character.
DigitWord(u) == IF u = 48 THEN <<122, 101, 114, 111>> ELSE _ONES[(u - 48) + 1]

\* s.split("").map(d => dmap[d]).join(" ") of a string of digits
SpellDigits(s) == JoinWith([k \in 1..Len(s) |-> DigitWord(s[k])], <<32>>)

\* float_to_words(value) of a string -?[0-9]*(.[0-9]+)? with the default
\* separator "point".
float_to_words(value) ==
    LET negative == value # << >> /\ value[1] = 45
        val_str == IF negative THEN Tail(value) ELSE value
        dots == {k \in 1..Len(val_str) : val_str[k] = 46}
        result ==
            IF dots # {}
            THEN LET dot == CHOOSE k \in dots : \A o \in dots : k <= o
                     int_part == SubSeq(val_str, 1, dot - 1)
                     dec_part == SubSeq(val_str, dot + 1,
                                        RunEnd(val_str, dot + 1,
                                               (0..65535) \ {46}))
                     int_words == IF int_part # << >>
                                  THEN NumberWords(int_part)
                                  ELSE <<122, 101, 114, 111>>
                 IN  int_words \o <<32, 112, 111, 105, 110, 116, 32>> \o SpellDigits(dec_part)
            ELSE NumberWords(val_str)
    IN  IF negative THEN <<110, 101, 103, 97, 116, 105, 118, 101, 32>> \o result ELSE result

\* t.replace(re, f) given the match the expression has at each position
\* where it has one, as [from, to, repl]: the matches are taken from the
\* left, each search starting after the previous match; p is where the
\* search starts.
RECURSIVE Substitute(_, _, _)
Substitute(t, ms, p) ==
    LET cand == {m \in ms : m.from >= p} IN
    IF cand = {} THEN SubSeq(t, p, Len(t))
    ELSE LET m == CHOOSE c \in cand : \A o \in cand : c.from <= o.from
         IN  SubSeq(t, p, m.from - 1) \o m.repl
                \o Substitute(t, ms, m.to + 1)

\* normalize_leading_decimals: "0" is put before a "." that a digit follows
\* and no digit precedes (after a "-" by the first expression, elsewhere by
\* _RE_LEAD_DEC).
normalize_leading_decimals(t) ==
    Substitute(t,
               { [from |-> i, to |-> i, repl |-> <<48, 46>>] :
                   i \in {k \in 1..(Len(t) - 1) :
                            /\ t[k] = 46
                            /\ t[k + 1] \in Digits
                            /\ k = 1 \/ t[k - 1] \notin Digits} },
               1)

\* Whether _RE_RANGE, /(?<!\w)(\d+)-(\d+)(?!\w)/, matches at i.
RangeAt(t, i) ==
    /\ t[i] \in Digits
    /\ i = 1 \/ t[i - 1] \notin WordChars
    /\ LET e1 == RunEnd(t, i, Digits) IN
       /\ e1 + 2 <= Len(t)
       /\ t[e1 + 1] = 45
       /\ t[e1 + 2] \in Digits
       /\ LET e2 == RunEnd(t, e1 + 2, Digits) IN
          e2 = Len(t) \/ t[e2 + 1] \notin WordChars

\* The match of _RE_RANGE at i and what expand_ranges puts for it.
RangeMatch(t, i) ==
    LET e1 == RunEnd(t, i, Digits)
        e2 == RunEnd(t, e1 + 2, Digits)
    IN  [from |-> i, to |-> e2,
         repl |-> NumberWords(SubSeq(t, i, e1)) \o <<32, 116, 111, 32>>
                     \o NumberWords(SubSeq(t, e1 + 2, e2))]

\* if (cfg.expand_ranges) t = t.replace(_RE_RANGE, ...)
expand_ranges(t) ==
    Substitute(t, { RangeMatch(t, i) : i \in {k \in 1..Len(t) : RangeAt(t, k)} },
               1)

\* Whether the "-" at p is the one of a match of _RE_MODEL_VER,
\* /\b([a-zA-Z][a-zA-Z0-9]*)-(\d[\d.]*)(?=[^\d.]|$)/: a digit follows and
\* the run of letters and digits before it starts with a letter at a word
\* boundary.
ModelHyphen(t, p) ==
    /\ t[p] = 45
    /\ p > 1 /\ p < Len(t)
    /\ t[p + 1] \in Digits
    /\ t[p - 1] \in Digits \cup AsciiLetters
    /\ LET s == RunStart(t, p - 1, Digits \cup AsciiLetters) IN
       /\ t[s] \in AsciiLetters
       /\ s = 1 \/ t[s - 1] # 95

\* if (cfg.expand_model_names) t = t.replace(_RE_MODEL_VER, "$1 $2")
expand_model_names(t) ==
    [p \in 1..Len(t) |-> IF ModelHyphen(t, p) THEN 32 ELSE t[p]]

\* The sum of the first k lengths of a phone pattern.
RECURSIVE SumLens(_, _)
SumLens(lens, k) == IF k = 0 THEN 0 ELSE SumLens(lens, k - 1) + lens[k]

\* Where the g-th group of digits of a phone pattern matched at i starts.
GroupFrom(i, lens, g) == i + SumLens(lens, g - 1) + (g - 1)

\* Whether a phone expression with groups of the given lengths,
\* /(?<!\d-)(?<!\d)\b(\d{n1})-...-(\d{nk})\b(?!-\d)/, matches at i.
PhoneAt(t, i, lens) ==
    LET k == Len(lens)
        e == GroupFrom(i, lens, k) + lens[k] - 1
    IN  /\ e <= Len(t)
        /\ \A g \in 1..k :
              /\ \A j \in 0..(lens[g] - 1) :
                    t[GroupFrom(i, lens, g) + j] \in Digits
              /\ g < k => t[GroupFrom(i, lens, g) + lens[g]] = 45
        /\ i = 1 \/ t[i - 1] \notin WordChars
        /\ ~(i > 2 /\ t[i - 1] = 45 /\ t[i - 2] \in Digits)
        /\ e = Len(t) \/ t[e + 1] \notin WordChars
        /\ ~(e + 2 <= Len(t) /\ t[e + 1] = 45 /\ t[e + 2] \in Digits)

\* The match at i and its replacement [_d(a), _d(b), ...].join(" ").
PhoneMatch(t, i, lens) ==
    [from |-> i,
     to |-> GroupFrom(i, lens, Len(lens)) + lens[Len(lens)] - 1,
     repl |-> JoinWith([g \in 1..Len(lens) |->
                           SpellDigits(SubSeq(t, GroupFrom(i, lens, g),
                                              GroupFrom(i, lens, g)
                                                 + lens[g] - 1))],
                       <<32>>)]

\* One t.replace of expand_phone_numbers, for the group lengths the
\* expression allows.
PhoneReplace(t, shapes) ==
    Substitute(t,
               { PhoneMatch(t, x[1], x[2]) :
                   x \in {y \in (1..Len(t)) \X shapes :
                            PhoneAt(t, y[1], y[2])} },
               1)

\* if (cfg.expand_phone_numbers): the three replacements, in order.
expand_phone_numbers(t) ==
    LET t1 == PhoneReplace(t, {<<1, 3, 3, 4>>, <<2, 3, 3, 4>>})
        t2 == PhoneReplace(t1, {<<3, 3, 4>>})
    IN  PhoneReplace(t2, {<<3, 4>>})

\* raw.replace(/,/g, "") keeps what is not a comma.
NotComma(u) == u # 44

\* Whether _RE_NUMBER, /(?<![a-zA-Z])-?[\d,]+(?:\.\d+)?/, matches at i.
NumberAt(t, i) ==
    /\ i = 1 \/ t[i - 1] \notin AsciiLetters
    /\ \/ t[i] \in Digits \cup {44}
       \/ t[i] = 45 /\ i < Len(t) /\ t[i + 1] \in Digits \cup {44}

\* The match of _RE_NUMBER at i and what replace_numbers puts for it.
NumberMatch(t, i) ==
    LET b == IF t[i] = 45 THEN i + 1 ELSE i
        e1 == RunEnd(t, b, Digits \cup {44})
        e == IF e1 + 2 <= Len(t) /\ t[e1 + 1] = 46 /\ t[e1 + 2] \in Digits
             THEN RunEnd(t, e1 + 2, Digits)
             ELSE e1
        raw == SelectSeq(SubSeq(t, i, e), NotComma)
    IN  [from |-> i, to |-> e,
         repl |-> IF \E k \in 1..Len(raw) : raw[k] = 46
                  THEN float_to_words(raw)
                  ELSE NumberWords(raw)]

\* if (cfg.replace_numbers) t = t.replace(_RE_NUMBER, ...), replace_floats
\* set.
replace_numbers(t) ==
    Substitute(t,
               { NumberMatch(t, i) : i \in {k \in 1..Len(t) : NumberAt(t, k)} },
               1)

\* What _RE_PUNCT leaves in place, for ASCII text: letters, digits, white
\* space and . , ? ! ; : - and the dashes and the ellipsis.
PunctKept ==
    AsciiLetters \cup Digits \cup WhiteSpace
        \cup {46, 44, 63, 33, 59, 58, 45, 8212, 8211, 8230}

\* if (cfg.remove_punctuation) t = t.replace(_RE_PUNCT, " ")
remove_punctuation(t) ==
    [p \in 1..Len(t) |-> IF t[p] \in PunctKept THEN t[p] ELSE 32]

\* t.toLowerCase(), for ASCII text
toLowerCase(t) ==
    [p \in 1..Len(t) |-> IF t[p] \in 65..90 THEN t[p] + 32 ELSE t[p]]

\* t.replace(_RE_SPACES, " ").trim()
remove_extra_whitespace(t) == Trim(JoinWith(Split(t, WhiteSpace), <<32>>))

\* The options of a TextPreprocessor that the callers set: the defaults of
\* the constructor, and those of KittenTTS ({ remove_punctuation: false }).
DefaultConfig == [remove_punctuation |-> TRUE]

KittenConfig == [remove_punctuation |-> FALSE]

\* TextPreprocessor.process(text), every option but remove_punctuation at
\* its default, for ASCII text of digits, letters, spaces and - . , with
\* fewer than three "." and no digit followed by a letter.  On such text
\* the other rules (HTML, URLs, e-mails, contractions, IP addresses,
\* currency, percentages, time, units, scientific notation, scale suffixes,
\* fractions, ordinals, decades) match nothing, and NFC changes nothing;
\* the two trim() calls that follow the URL and e-mail rules still apply.
process(cfg, t0) ==
    LET t1 == Trim(Trim(t0))
        t2 == normalize_leading_decimals(t1)
        t3 == expand_ranges(t2)
        t4 == expand_model_names(t3)
        t5 == expand_phone_numbers(t4)
        t6 == replace_numbers(t5)
        t7 == IF cfg.remove_punctuation THEN remove_punctuation(t6) ELSE t6
        t8 == toLowerCase(t7)
    IN  remove_extra_whitespace(t8)

\* number_to_words and TextPreprocessor.process, one call of either.

MaxHundreds == 99

MaxPreLen == 3

\* The arguments of number_to_words: the multiples of 100 and some others.
NumberInputs == {100 * k : k \in 0..MaxHundreds} \cup ((0 - 21)..121)

\* "1", "5", "-", ".", ",", "a", " "
PreAlphabet == {49, 53, 45, 46, 44, 97, 32}

\* Phone numbers NNN-NNN-NNNN and NNN-NNNN, one digit per group, alone or
\* after "a ".
PhoneDigits == {48, 49, 53}

Repeat(u, n) == [k \in 1..n |-> u]

PhoneTexts ==
    { pre \o body :
        pre \in { << >>, <<97, 32>> },
        body \in { Repeat(x, 3) \o <<45>> \o Repeat(y, 3) \o <<45>>
                      \o Repeat(z, 4) : x, y, z \in PhoneDigits }
                 \cup { Repeat(x, 3) \o <<45>> \o Repeat(y, 4) :
                          x, y \in PhoneDigits } }

PreTexts == SeqsUpTo(PreAlphabet, MaxPreLen) \cup PhoneTexts

PreInit ==
    /\ ppc = "start"
    /\ \/ pn \in NumberInputs /\ ptext = << >>
       \/ pn = 0 /\ ptext \in PreTexts
    /\ pwords = << >>
    /\ pout = << >>
    /\ TokIdle /\ ChunkIdle /\ GenIdle /\ NpzIdle /\ PhonIdle /\ WorkerIdle

CallNumberToWords ==
    /\ ppc = "start"
    /\ ppc' = "number_to_words"
    /\ pwords' = number_to_words(pn)
    /\ UNCHANGED <<pn, ptext, pout>>

\* new TextPreprocessor().process(text)
CallProcess ==
    /\ ppc = "start"
    /\ ppc' = "process"
    /\ pout' = process(DefaultConfig, ptext)
    /\ UNCHANGED <<pn, ptext, pwords>>

PreNext ==
    /\ CallNumberToWords \/ CallProcess
    /\ UNCHANGED <<tokVars, chunkVars, genVars, npzVars, phonVars, workerVars>>

SpecPre == PreInit /\ [][PreNext]_vars

----------------------------------------------------------------------------
(* kitten-tts.js: the instance and _prepareInputs.                         *)

AUDIO_TRIM == 5000

DEFAULT_VOICE_ALIASES ==
    [n \in {"Bella", "Jasper", "Luna", "Bruno", "Rosie", "Hugo", "Kiki",
            "Leo"} |->
        CASE n = "Bella" -> "expr-voice-2-f"
          [] n = "Jasper" -> "expr-voice-2-m"
          [] n = "Luna" -> "expr-voice-3-f"
          [] n = "Bruno" -> "expr-voice-3-m"
          [] n = "Rosie" -> "expr-voice-4-f"
          [] n = "Hugo" -> "expr-voice-4-m"
          [] n = "Kiki" -> "expr-voice-5-f"
          [] n = "Leo" -> "expr-voice-5-m"]

DEFAULT_VOICE == "Leo"

\* The value undefined (an absent option, an absent property).
Undefined == "<undefined>"

\* Properties every plain object inherits from Object.prototype, and what
\* the inherited value (a function) becomes when used as a property key or
\* in a template literal.
ObjectPrototypeKeys == {"constructor"}

PrototypeValue(k) == "function Object() { [native code] }"

\* obj[key] on a plain object.
Get(obj, key) ==
    IF key \in DOMAIN obj THEN obj[key]
    ELSE IF key \in ObjectPrototypeKeys THEN PrototypeValue(key)
    ELSE Undefined

\* Whether if (obj[key]) takes the branch, for a property holding strings
\* or numbers: it is there (own or inherited) and its value is not the falsy
\* value of its type ("" for the alias strings, 0 for the prior numbers).
Truthy(obj, key, falsy) ==
    IF key \in DOMAIN obj THEN obj[key] # falsy
    ELSE key \in ObjectPrototypeKeys

\* The same for a property holding objects, which are never falsy.
TruthyObject(obj, key) == key \in DOMAIN obj \/ key \in ObjectPrototypeKeys

\* The constructor: voiceAliases = {...DEFAULT_VOICE_ALIASES,
\* ...(config.voice_aliases || {})}, speedPriors = config.speed_priors || {}.
NewKittenTTS(voices, config) ==
    [voices |-> voices,
     voiceAliases |-> config.voice_aliases @@ DEFAULT_VOICE_ALIASES,
     speedPriors |-> config.speed_priors,
     availableVoices |-> DOMAIN voices]

\* Step 4 of _prepareInputs, the alias: if (this.voiceAliases[voiceName])
\* voiceName = this.voiceAliases[voiceName].
ResolveVoice(t, voiceName) ==
    IF Truthy(t.voiceAliases, voiceName, "")
    THEN Get(t.voiceAliases, voiceName)
    ELSE voiceName

\* array.slice(from, to) of a flat array, 0-based and clipped to the array.
Slice(data, from, to) ==
    SubSeq(data, Min(from, Len(data)) + 1, Min(to, Len(data)))

\* _prepareInputs without step 5: the speed is handed on as requested.
_prepareInputsNoPrior(t, ph, voiceName0, speed0) ==
    LET phonemes1 == JoinWithSpace(basic_english_tokenize(ph))
        ids1 == clean(phonemes1)
        voiceName == ResolveVoice(t, voiceName0)
    IN  IF ~TruthyObject(t.voices, voiceName)
        THEN [ok |-> FALSE,
              error |-> [name |-> "Error", voice |-> voiceName,
                         available |-> t.availableVoices]]
        ELSE IF voiceName \notin DOMAIN t.voices
        THEN \* an inherited function: [numStyles, styleDim] = undefined
             [ok |-> FALSE,
              error |-> [name |-> "TypeError", voice |-> voiceName,
                         available |-> t.availableVoices]]
        ELSE LET voiceEntry == Get(t.voices, voiceName)
                 numStyles == voiceEntry.shape[1]
                 styleDim == voiceEntry.shape[2]
                 speed == speed0
                 refId == Min(Len(ids1), numStyles - 1)
             IN  [ok |-> TRUE,
                  inputs |-> [input_ids |-> ids1,
                              style |-> Slice(voiceEntry.data,
                                              refId * styleDim,
                                              (refId + 1) * styleDim),
                              styleDim |-> styleDim,
                              speed |-> speed]]

\* _prepareInputs after phonemize has returned ph: [ok |-> TRUE, inputs]
\* or [ok |-> FALSE, error].
_prepareInputsDefaultVoice(t, ph, voiceName0, speed0) ==
    LET phonemes1 == JoinWithSpace(basic_english_tokenize(ph))
        ids1 == clean(phonemes1)
        requested == ResolveVoice(t, voiceName0)
        voiceName == IF TruthyObject(t.voices, requested) THEN requested
                     ELSE ResolveVoice(t, DEFAULT_VOICE)
    IN  IF ~TruthyObject(t.voices, voiceName)
        THEN [ok |-> FALSE,
              error |-> [name |-> "Error", voice |-> voiceName,
                         available |-> t.availableVoices]]
        ELSE LET voiceEntry == Get(t.voices, voiceName)
                 numStyles == voiceEntry.shape[1]
                 styleDim == voiceEntry.shape[2]
                 speed == IF Truthy(t.speedPriors, voiceName, 0)
                          THEN speed0 * Get(t.speedPriors, voiceName)
                          ELSE speed0
                 refId == Min(Len(ids1), numStyles - 1)
             IN  [ok |-> TRUE,
                  inputs |-> [input_ids |-> ids1,
                              style |-> Slice(voiceEntry.data,
                                              refId * styleDim,
                                              (refId + 1) * styleDim),
                              styleDim |-> styleDim,
                              speed |-> speed]]

_prepareInputs(t, ph, voiceName0, speed0) ==
    LET phonemes1 == JoinWithSpace(basic_english_tokenize(ph))
        ids1 == clean(phonemes1)
        voiceName == ResolveVoice(t, voiceName0)
    IN  IF ~TruthyObject(t.voices, voiceName)
        THEN [ok |-> FALSE,
              error |-> [name |-> "Error", voice |-> voiceName,
                         available |-> t.availableVoices]]
        ELSE IF voiceName \notin DOMAIN t.voices
        THEN \* an inherited function: [numStyles, styleDim] = undefined
             [ok |-> FALSE,
              error |-> [name |-> "TypeError", voice |-> voiceName,
                         available |-> t.availableVoices]]
        ELSE LET voiceEntry == Get(t.voices, voiceName)
                 numStyles == voiceEntry.shape[1]
                 styleDim == voiceEntry.shape[2]
                 speed == IF Truthy(t.speedPriors, voiceName, 0)
                          THEN speed0 * Get(t.speedPriors, voiceName)
                          ELSE speed0
                 refId == Min(Len(ids1), numStyles - 1)
             IN  [ok |-> TRUE,
                  inputs |-> [input_ids |-> ids1,
                              style |-> Slice(voiceEntry.data,
                                              refId * styleDim,
                                              (refId + 1) * styleDim),
                              styleDim |-> styleDim,
                              speed |-> speed]]

----------------------------------------------------------------------------
(* KittenTTS.generate and KittenTTS.stream: one instance, one call.        *)

MaxGenPhonemeLen == 2

\* "", "a", "a.b", "1.5": no chunk, one chunk, two chunks, and two chunks
\* cut out of one number.
GenTexts == {<< >>, <<97>>, <<97, 46, 98>>, <<49, 46, 53>>}

\* What the phonemizer may return for a chunk: the prefixes of "a,aa", of
\* zero, one, three (a space is put before the comma) or more content ids.
GenPhonemes ==
    { SubSeq(<<97, 44, 97, 97>>, 1, k) : k \in 0..MaxGenPhonemeLen }

\* The lengths of the waveform the session may return, around AUDIO_TRIM.
GenRawLens == {AUDIO_TRIM - 1, AUDIO_TRIM + 2}

\* An entry whose flat data names, element by element, its voice, row and
\* column; shape is [numStyles, styleDim].
VoiceEntry(key, shape) ==
    [shape |-> shape,
     data |-> [i \in 1..(shape[1] * shape[2]) |->
                  [voice |-> key,
                   row |-> (i - 1) \div shape[2],
                   col |-> (i - 1) % shape[2]]]]

\* Archives with one or two voices, of one or five style rows.
GenArchives ==
    { [k \in {"expr-voice-5-m"} |-> VoiceEntry(k, <<1, 2>>)],
      [k \in {"expr-voice-5-m"} |-> VoiceEntry(k, <<5, 2>>)],
      [k \in {"expr-voice-5-m", "expr-voice-2-f"} |->
          VoiceEntry(k, <<5, 2>>)] }

\* Configurations: no tables, or an alias with a prior of 2 or of 0.
GenConfigs ==
    { [voice_aliases |-> << >>, speed_priors |-> << >>],
      [voice_aliases |-> [n \in {"Bella"} |-> "expr-voice-5-m"],
       speed_priors |-> [k \in {"expr-voice-5-m"} |-> 2]],
      [voice_aliases |-> [n \in {"Bella"} |-> "expr-voice-5-m"],
       speed_priors |-> [k \in {"expr-voice-5-m"} |-> 0]] }

\* The opts objects of a call: each of voice, speed and clean given or not.
GenOpts ==
    { v @@ sp @@ c :
        v \in { << >> } \cup
               { [k \in {"voice"} |-> n] :
                   n \in {"Bella", "expr-voice-2-f", "Nobody", "constructor"} },
        sp \in { << >>, [k \in {"speed"} |-> 3] },
        c \in { << >>, [k \in {"clean"} |-> FALSE] } }

GenCalls == [mode : {"generate", "stream"}, text : GenTexts, opts : GenOpts]

\* const { voice = DEFAULT_VOICE, speed = 1.0, clean = true } = opts
OptVoice ==
    IF "voice" \in DOMAIN call.opts THEN call.opts["voice"] ELSE DEFAULT_VOICE

OptSpeed == IF "speed" \in DOMAIN call.opts THEN call.opts["speed"] ELSE 1

OptClean ==
    IF "clean" \in DOMAIN call.opts THEN call.opts["clean"] ELSE TRUE

GenInit ==
    /\ gpc = "start"
    /\ tts \in { NewKittenTTS(v, c) : v \in GenArchives, c \in GenConfigs }
    /\ call \in GenCalls
    /\ gchunks = << >> /\ gidx = 0 /\ ginputs = << >>
    /\ audioChunks = << >> /\ yielded = << >> /\ gresult = << >>
    /\ gerror = << >> /\ phonLog = << >> /\ infLog = << >>
    /\ outLog = << >>
    /\ TokIdle /\ ChunkIdle /\ PreIdle /\ NpzIdle /\ PhonIdle /\ WorkerIdle

\* const chunks = this._chunkText(text), and the loop is entered.
GenStart ==
    /\ gpc = "start"
    /\ gchunks' = _chunkText(call.text)
    /\ gidx' = 1
    /\ gpc' = "loop"
    /\ UNCHANGED <<tts, call, ginputs, audioChunks, yielded, gresult, gerror,
                   phonLog, infLog,
                   outLog>>

\* const processedText = clean ? this._preprocessor.process(chunk) : chunk
ProcessedText(chunk) ==
    IF OptClean THEN process(KittenConfig, chunk) ELSE chunk

\* _prepareInputs steps 1 and 2: the chunk, preprocessed when clean is set,
\* is handed to phonemize, and the call awaits it.
CallPhonemize ==
    /\ gpc = "loop"
    /\ gidx <= Len(gchunks)
    /\ phonLog' = Append(phonLog, [chunk |-> gidx,
                                   text |-> ProcessedText(gchunks[gidx]),
                                   processed |-> OptClean])
    /\ gpc' = "phonemizing"
    /\ UNCHANGED <<tts, call, gchunks, gidx, ginputs, audioChunks, yielded,
                   gresult, gerror, infLog,
                   outLog>>

\* phonemize returns and _prepareInputs runs to its end: it returns the
\* inputs or throws, which ends the call.
PrepareInputs ==
    /\ gpc = "phonemizing"
    /\ \E ph \in GenPhonemes :
          LET r == _prepareInputs(tts, ph, OptVoice, OptSpeed) IN
          IF r.ok
          THEN /\ ginputs' = r.inputs
               /\ gpc' = "infer"
               /\ UNCHANGED gerror
          ELSE /\ gerror' = r.error
               /\ gpc' = "failed"
               /\ UNCHANGED ginputs
    /\ UNCHANGED <<tts, call, gchunks, gidx, audioChunks, yielded, gresult,
                   phonLog, infLog,
                   outLog>>

\* phonemize rejects: the await in _prepareInputs throws, and the await of
\* _prepareInputs in the loop throws in turn, which ends the call.
PhonemizeRejects ==
    /\ gpc = "phonemizing"
    /\ gerror' = [name |-> "PhonemizerFailure", voice |-> "",
                  available |-> {}]
    /\ gpc' = "failed"
    /\ UNCHANGED <<tts, call, gchunks, gidx, ginputs, audioChunks, yielded,
                   gresult, phonLog, infLog, outLog>>

\* _runInference builds the feeds and calls this._session.run(feeds).
SessionRun ==
    /\ gpc = "infer"
    /\ infLog' = Append(infLog, [chunk |-> gidx,
                                 input_ids |-> ginputs.input_ids,
                                 style |-> ginputs.style,
                                 speed |-> ginputs.speed])
    /\ gpc' = "inferring"
    /\ UNCHANGED <<tts, call, gchunks, gidx, ginputs, audioChunks, yielded,
                   gresult, gerror, phonLog, outLog>>

\* A loop that goes on to the next chunk when session.run rejects.
SessionRejectsSkipping ==
    /\ gpc = "inferring"
    /\ gerror' = [name |-> "InferenceFailure", voice |-> "", available |-> {}]
    /\ gidx' = gidx + 1
    /\ gpc' = "loop"
    /\ UNCHANGED <<tts, call, gchunks, ginputs, audioChunks, yielded,
                   gresult, phonLog, infLog, outLog>>

\* session.run rejects: the await in _runInference throws, and the await
\* of _runInference in the loop throws in turn, which ends the call.
SessionRejects ==
    /\ gpc = "inferring"
    /\ gerror' = [name |-> "InferenceFailure", voice |-> "", available |-> {}]
    /\ gpc' = "failed"
    /\ UNCHANGED <<tts, call, gchunks, gidx, ginputs, audioChunks, yielded,
                   gresult, phonLog, infLog, outLog>>

\* The whole waveform, nothing trimmed.
TrimmedNothing(i, n) == [k \in 1..n |-> <<i, k>>]

\* audioData.slice(0, Math.max(0, audioData.length - AUDIO_TRIM)) of a
\* waveform of n samples of the chunk at position i.
Trimmed(i, n) ==
    SubSeq([k \in 1..n |-> <<i, k>>], 1, Max(0, n - AUDIO_TRIM))

\* A stream that starts on the next chunk before it yields this one's.
SessionReturnsEager ==
    /\ gpc = "inferring"
    /\ \E n \in GenRawLens :
          /\ outLog' = Append(outLog, n)
          /\ IF call.mode = "generate"
             THEN /\ audioChunks' = Append(audioChunks, Trimmed(gidx, n))
                  /\ gidx' = gidx + 1
                  /\ gpc' = "loop"
                  /\ UNCHANGED <<yielded, phonLog>>
             ELSE /\ yielded' = Append(yielded, [text |-> gchunks[gidx],
                                                 audio |-> Trimmed(gidx, n)])
                  /\ phonLog' =
                        IF gidx < Len(gchunks)
                        THEN Append(phonLog,
                                    [chunk |-> gidx + 1,
                                     text |-> ProcessedText(gchunks[gidx + 1]),
                                     processed |-> OptClean])
                        ELSE phonLog
                  /\ gpc' = "yielded"
                  /\ UNCHANGED <<audioChunks, gidx>>
    /\ UNCHANGED <<tts, call, gchunks, ginputs, gresult, gerror, infLog>>

\* The session returns a waveform; _runInference trims it; generate pushes
\* it and goes on, stream yields it with the chunk's text.
SessionReturns ==
    /\ gpc = "inferring"
    /\ \E n \in GenRawLens :
          /\ outLog' = Append(outLog, n)
          /\ IF call.mode = "generate"
             THEN /\ audioChunks' = Append(audioChunks, Trimmed(gidx, n))
                  /\ gidx' = gidx + 1
                  /\ gpc' = "loop"
                  /\ UNCHANGED yielded
             ELSE /\ yielded' = Append(yielded, [text |-> gchunks[gidx],
                                                 audio |-> Trimmed(gidx, n)])
                  /\ gpc' = "yielded"
                  /\ UNCHANGED <<audioChunks, gidx>>
    /\ UNCHANGED <<tts, call, gchunks, ginputs, gresult, gerror, phonLog,
                   infLog>>

\* The consumer of stream asks for the next item.
StreamNext ==
    /\ gpc = "yielded"
    /\ gidx' = gidx + 1
    /\ gpc' = "loop"
    /\ UNCHANGED <<tts, call, gchunks, ginputs, audioChunks, yielded,
                   gresult, gerror, phonLog, infLog,
                   outLog>>

\* A stream that has already handed the next chunk to phonemize when the
\* consumer stops.
StreamReturnPrefetching ==
    /\ gpc = "yielded"
    /\ gpc' = "returned"
    /\ phonLog' = IF gidx < Len(gchunks)
                  THEN Append(phonLog,
                              [chunk |-> gidx + 1,
                               text |-> ProcessedText(gchunks[gidx + 1]),
                               processed |-> OptClean])
                  ELSE phonLog
    /\ UNCHANGED <<tts, call, gchunks, gidx, ginputs, audioChunks, yielded,
                   gresult, gerror, infLog, outLog>>

\* The consumer of stream stops iterating: the generator is closed.
StreamReturn ==
    /\ gpc = "yielded"
    /\ gpc' = "returned"
    /\ UNCHANGED <<tts, call, gchunks, gidx, ginputs, audioChunks, yielded,
                   gresult, gerror, phonLog, infLog,
                   outLog>>

\* The loop is over: generate concatenates the chunks' samples.
GenFinish ==
    /\ gpc = "loop"
    /\ gidx > Len(gchunks)
    /\ gresult' = IF call.mode = "generate" THEN JoinAll(audioChunks)
                  ELSE gresult
    /\ gpc' = "done"
    /\ UNCHANGED <<tts, call, gchunks, gidx, ginputs, audioChunks, yielded,
                   gerror, phonLog, infLog, outLog>>

GenNext ==
    /\ \/ GenStart
       \/ CallPhonemize
       \/ PrepareInputs
       \/ PhonemizeRejects
       \/ SessionRun
       \/ SessionReturns
       \/ SessionRejects
       \/ StreamNext
       \/ StreamReturn
       \/ GenFinish
    /\ UNCHANGED <<tokVars, chunkVars, preVars, npzVars, phonVars, workerVars>>

SpecGen == GenInit /\ [][GenNext]_vars

----------------------------------------------------------------------------
(* phonemizer.js: getEspeakInstance and the calls of phonemize, which may  *)
(* be made while earlier calls are still awaiting.                         *)

MaxPhonCalls == 3

PhonInit ==
    /\ espeakInstance = 0
    /\ workers = 0
    /\ phpc = [c \in 1..MaxPhonCalls |-> "idle"]
    /\ phinst = [c \in 1..MaxPhonCalls |-> 0]
    /\ TokIdle /\ ChunkIdle /\ GenIdle /\ PreIdle /\ NpzIdle /\ WorkerIdle

\* phonemize is called and calls getEspeakInstance, which returns the
\* cached instance when there is one and otherwise awaits the import.
CallPhonemizeFn(c) ==
    /\ phpc[c] = "idle"
    /\ IF espeakInstance # 0
       THEN /\ phpc' = [phpc EXCEPT ![c] = "ready"]
            /\ phinst' = [phinst EXCEPT ![c] = espeakInstance]
       ELSE /\ phpc' = [phpc EXCEPT ![c] = "importing"]
            /\ UNCHANGED phinst
    /\ UNCHANGED <<espeakInstance, workers>>

\* The import resolves, and getEspeakInstance awaits EspeakInitializer().
ImportResolves(c) ==
    /\ phpc[c] = "importing"
    /\ phpc' = [phpc EXCEPT ![c] = "initializing"]
    /\ UNCHANGED <<espeakInstance, workers, phinst>>

\* EspeakInitializer() resolves: espeakInstance = new m.eSpeakNGWorker(),
\* its voice is set, and it is returned to phonemize.
InitializerResolves(c) ==
    /\ phpc[c] = "initializing"
    /\ workers' = workers + 1
    /\ espeakInstance' = workers + 1
    /\ phinst' = [phinst EXCEPT ![c] = workers + 1]
    /\ phpc' = [phpc EXCEPT ![c] = "ready"]

\* phonemize goes on with instance.synthesize_ipa(text) to its end.
Synthesize(c) ==
    /\ phpc[c] = "ready"
    /\ phpc' = [phpc EXCEPT ![c] = "done"]
    /\ UNCHANGED <<espeakInstance, workers, phinst>>

PhonNext ==
    /\ \E c \in 1..MaxPhonCalls :
          \/ CallPhonemizeFn(c)
          \/ ImportResolves(c)
          \/ InitializerResolves(c)
          \/ Synthesize(c)
    /\ UNCHANGED <<tokVars, chunkVars, genVars, preVars, npzVars, workerVars>>

SpecPhon == PhonInit /\ [][PhonNext]_vars

----------------------------------------------------------------------------
(* docs/worker.js: self.onmessage.  The handler is an async function: it   *)
(* runs from one await to the next, and between the awaits of one message  *)
(* the handlers of other messages may start and run.                       *)

MaxMsgs == 3

MaxWorkerChunks == 2

\* The messages posted: init, generate or another type, with distinct ids.
WorkerMsgs ==
    { [m \in 1..MaxMsgs |-> [type |-> types[m], id |-> 10 + m]] :
        types \in [1..MaxMsgs -> {"init", "generate", "other"}] }

WorkerInit ==
    /\ wmsgs \in WorkerMsgs
    /\ wnext = 0
    /\ wKittenTTS = FALSE
    /\ wtts = 0
    /\ wmodels = << >>
    /\ wpc = [m \in 1..MaxMsgs |-> "queued"]
    /\ winst = [m \in 1..MaxMsgs |-> 0]
    /\ wleft = [m \in 1..MaxMsgs |-> 0]
    /\ wreplies = << >>
    /\ TokIdle /\ ChunkIdle /\ GenIdle /\ PreIdle /\ NpzIdle /\ PhonIdle

\* self.postMessage({ type, id }) by the handler of message m.
PostMessage(m, type) ==
    wreplies' = Append(wreplies, [type |-> type, id |-> wmsgs[m].id])

\* The init handler from step 2 on: with a model, tts.release() is called,
\* which calls this._session.release(), and awaited; with none,
\* KittenTTS.from_pretrained is called and awaited.
ReleaseOrLoad(m) ==
    IF wtts # 0
    THEN /\ wmodels' = [wmodels EXCEPT ![wtts] =
                           IF @ = "loaded" THEN "releasing" ELSE @]
         /\ winst' = [winst EXCEPT ![m] = wtts]
         /\ wpc' = [wpc EXCEPT ![m] = "releasing"]
    ELSE /\ wpc' = [wpc EXCEPT ![m] = "loading"]
         /\ UNCHANGED <<wmodels, winst>>

\* onmessage is called with the next message, an init: without the
\* library the import is awaited, with it the handler goes on to step 2.
OnInit(m) ==
    /\ m = wnext + 1 /\ m <= Len(wmsgs)
    /\ wmsgs[m].type = "init"
    /\ wnext' = m
    /\ IF ~wKittenTTS
       THEN /\ wpc' = [wpc EXCEPT ![m] = "importing"]
            /\ UNCHANGED <<wmodels, winst>>
       ELSE ReleaseOrLoad(m)
    /\ UNCHANGED <<wmsgs, wKittenTTS, wtts, wleft, wreplies>>

\* The import resolves: KittenTTS = mod.KittenTTS, and step 2.
WorkerImportResolves(m) ==
    /\ wpc[m] = "importing"
    /\ wKittenTTS' = TRUE
    /\ ReleaseOrLoad(m)
    /\ UNCHANGED <<wmsgs, wnext, wtts, wleft, wreplies>>

\* The import rejects: the catch posts the error.
WorkerImportRejects(m) ==
    /\ wpc[m] = "importing"
    /\ wpc' = [wpc EXCEPT ![m] = "done"]
    /\ PostMessage(m, "error")
    /\ UNCHANGED <<wmsgs, wnext, wKittenTTS, wtts, wmodels, winst, wleft>>

\* tts.release() resolves (it catches a failure of the session's release):
\* KittenTTS.from_pretrained is called and awaited.
ReleaseResolves(m) ==
    /\ wpc[m] = "releasing"
    /\ wmodels' = [wmodels EXCEPT ![winst[m]] = "released"]
    /\ wpc' = [wpc EXCEPT ![m] = "loading"]
    /\ UNCHANGED <<wmsgs, wnext, wKittenTTS, wtts, winst, wleft, wreplies>>

\* An init that answers nothing when the load fails.
LoadRejectsSilently(m) ==
    /\ wpc[m] = "loading"
    /\ wpc' = [wpc EXCEPT ![m] = "done"]
    /\ UNCHANGED <<wmsgs, wnext, wKittenTTS, wtts, wmodels, winst, wleft,
                   wreplies>>

\* from_pretrained rejects: the catch posts the error, tts is as it was.
LoadRejects(m) ==
    /\ wpc[m] = "loading"
    /\ wpc' = [wpc EXCEPT ![m] = "done"]
    /\ PostMessage(m, "error")
    /\ UNCHANGED <<wmsgs, wnext, wKittenTTS, wtts, wmodels, winst, wleft>>

\* from_pretrained resolves with a new instance: tts = it, and init-done
\* is posted.
LoadResolves(m) ==
    /\ wpc[m] = "loading"
    /\ wmodels' = Append(wmodels, "loaded")
    /\ wtts' = Len(wmodels) + 1
    /\ wpc' = [wpc EXCEPT ![m] = "done"]
    /\ PostMessage(m, "init-done")
    /\ UNCHANGED <<wmsgs, wnext, wKittenTTS, winst, wleft>>

\* onmessage is called with the next message, a generate: without a model
\* it throws and the catch posts the error; with one, tts.generate is
\* called on it and awaited, the text being of some number of chunks.
OnGenerate(m) ==
    /\ m = wnext + 1 /\ m <= Len(wmsgs)
    /\ wmsgs[m].type = "generate"
    /\ wnext' = m
    /\ IF wtts = 0
       THEN /\ wpc' = [wpc EXCEPT ![m] = "done"]
            /\ PostMessage(m, "error")
            /\ UNCHANGED <<winst, wleft>>
       ELSE /\ wpc' = [wpc EXCEPT ![m] = "generating"]
            /\ winst' = [winst EXCEPT ![m] = wtts]
            /\ \E n \in 0..MaxWorkerChunks : wleft' = [wleft EXCEPT ![m] = n]
            /\ UNCHANGED wreplies
    /\ UNCHANGED <<wmsgs, wKittenTTS, wtts, wmodels>>

\* generate: _prepareInputs of the next chunk has returned and
\* _runInference calls session.run of the instance.
WorkerSessionRun(m) ==
    /\ wpc[m] = "generating"
    /\ wleft[m] > 0
    /\ wpc' = [wpc EXCEPT ![m] = "inferring"]
    /\ UNCHANGED <<wmsgs, wnext, wKittenTTS, wtts, wmodels, winst, wleft,
                   wreplies>>

\* session.run resolves: the loop of generate goes on.
WorkerSessionReturns(m) ==
    /\ wpc[m] = "inferring"
    /\ wleft' = [wleft EXCEPT ![m] = @ - 1]
    /\ wpc' = [wpc EXCEPT ![m] = "generating"]
    /\ UNCHANGED <<wmsgs, wnext, wKittenTTS, wtts, wmodels, winst, wreplies>>

\* tts.generate rejects, in _prepareInputs or in session.run: the catch
\* posts the error.
GenerateRejects(m) ==
    /\ \/ wpc[m] = "generating" /\ wleft[m] > 0
       \/ wpc[m] = "inferring"
    /\ wpc' = [wpc EXCEPT ![m] = "done"]
    /\ PostMessage(m, "error")
    /\ UNCHANGED <<wmsgs, wnext, wKittenTTS, wtts, wmodels, winst, wleft>>

\* tts.generate resolves: generate-done is posted with the samples.
GenerateResolves(m) ==
    /\ wpc[m] = "generating"
    /\ wleft[m] = 0
    /\ wpc' = [wpc EXCEPT ![m] = "done"]
    /\ PostMessage(m, "generate-done")
    /\ UNCHANGED <<wmsgs, wnext, wKittenTTS, wtts, wmodels, winst, wleft>>

\* onmessage is called with the next message, of another type: neither
\* branch is taken and nothing is posted.
OnOther(m) ==
    /\ m = wnext + 1 /\ m <= Len(wmsgs)
    /\ wmsgs[m].type \notin {"init", "generate"}
    /\ wnext' = m
    /\ wpc' = [wpc EXCEPT ![m] = "done"]
    /\ UNCHANGED <<wmsgs, wKittenTTS, wtts, wmodels, winst, wleft, wreplies>>

WorkerNext ==
    /\ \E m \in 1..MaxMsgs :
          \/ OnInit(m)
          \/ WorkerImportResolves(m)
          \/ WorkerImportRejects(m)
          \/ ReleaseResolves(m)
          \/ LoadRejects(m)
          \/ LoadResolves(m)
          \/ OnGenerate(m)
          \/ WorkerSessionRun(m)
          \/ WorkerSessionReturns(m)
          \/ GenerateRejects(m)
          \/ GenerateResolves(m)
          \/ OnOther(m)
    /\ UNCHANGED <<tokVars, chunkVars, genVars, preVars, npzVars, phonVars>>

SpecWorker == WorkerInit /\ [][WorkerNext]_vars

\* The worker when every promise a handler awaits settles.
SpecWorkerLive == SpecWorker /\ WF_vars(WorkerNext)

----------------------------------------------------------------------------
(* npz-loader.js: parseNpy.  A buffer is the sequence of its bytes; a      *)
(* 32-bit float is the record [s, e, m] of its sign, exponent field and    *)
(* mantissa field.                                                         *)

\* '\x93NUMPY'
MAGIC == <<147, 78, 85, 77, 80, 89>>

\* 2^n
RECURSIVE Pow2(_)
Pow2(n) == IF n = 0 THEN 1 ELSE 2 * Pow2(n - 1)

\* The little-endian bytes of a 32-bit float (DataView.setFloat32(.., true)).
EncodeF32(f) ==
    << f.m % 256,
       (f.m \div 256) % 256,
       ((f.e % 2) * 128) + (f.m \div 65536),
       (f.s * 128) + (f.e \div 2) >>

\* The 32-bit float four big-endian bytes hold.
DecodeF32BigEndian(b) ==
    [s |-> b[1] \div 128,
     e |-> ((b[1] % 128) * 2) + (b[2] \div 128),
     m |-> ((b[2] % 128) * 65536) + (b[3] * 256) + b[4]]

\* The 32-bit float four little-endian bytes hold (a Float32Array element).
DecodeF32(b) ==
    [s |-> b[4] \div 128,
     e |-> ((b[4] % 128) * 2) + (b[3] \div 128),
     m |-> ((b[3] % 128) * 65536) + (b[2] * 256) + b[1]]

\* The 32-bit integer four little-endian bytes hold in two's complement (an
\* Int32Array element).
DecodeI32(b) ==
    IF b[4] < 128
    THEN (b[4] * 16777216) + (b[3] * 65536) + (b[2] * 256) + b[1]
    ELSE 0 - ((((255 - b[4]) * 16777216) + ((255 - b[3]) * 65536)
                  + ((255 - b[2]) * 256) + (255 - b[1])) + 1)

\* The integer eight little-endian bytes hold (a BigInt64Array element),
\* for the integers of 32 bits.
DecodeI64(b) == DecodeI32(SubSeq(b, 1, 4))

\* The exponent of the highest power of 2 not above a, a >= 1.
RECURSIVE Log2(_)
Log2(a) == IF a < 2 THEN 0 ELSE 1 + Log2(a \div 2)

\* The 32-bit float an integer converts to, for the integers it holds
\* exactly (below 2^24 in size).
FloatOfInt(k) ==
    IF k = 0 THEN [s |-> 0, e |-> 0, m |-> 0]
    ELSE LET a == IF k < 0 THEN 0 - k ELSE k
             x == Log2(a)
         IN  [s |-> IF k < 0 THEN 1 ELSE 0,
              e |-> 127 + x,
              m |-> (a - Pow2(x)) * Pow2(23 - x)]

\* NaN, what a Float32Array stores for undefined.
NaN32 == [s |-> 0, e |-> 255, m |-> 4194304]

\* The 32-bit float a 64-bit float (eight little-endian bytes) narrows to,
\* rounding to nearest, ties to even, for the values whose result is zero
\* or normal.
NarrowF64(b) ==
    LET s == b[8] \div 128
        e11 == ((b[8] % 128) * 16) + (b[7] \div 16)
        top == ((b[7] % 16) * 524288) + (b[6] * 2048) + (b[5] * 8)
                  + (b[4] \div 32)
        rest == ((b[4] % 32) * 16777216) + (b[3] * 65536) + (b[2] * 256)
                   + b[1]
        up == rest > 268435456 \/ (rest = 268435456 /\ top % 2 = 1)
        m1 == IF up THEN top + 1 ELSE top
        e32 == (e11 - 896) + (IF m1 = 8388608 THEN 1 ELSE 0)
    IN  IF e11 = 0 THEN [s |-> s, e |-> 0, m |-> 0]
        ELSE [s |-> s, e |-> e32, m |-> m1 % 8388608]

\* A typed array is [kind, buffer, length], its byteOffset being 0; the
\* bytes one element takes:
BytesPerElement(kind) ==
    CASE kind = "Uint8Array" -> 1
      [] kind \in {"Float32Array", "Int32Array"} -> 4
      [] kind \in {"Float64Array", "BigInt64Array"} -> 8

\* new Kind(buffer): a view of the whole buffer, or a RangeError when the
\* byte length is not a multiple of the element size.
NewView(kind, buffer) ==
    IF Len(buffer) % BytesPerElement(kind) # 0
    THEN [ok |-> FALSE, error |-> "RangeError"]
    ELSE [ok |-> TRUE,
          ta |-> [kind |-> kind, buffer |-> buffer,
                  length |-> Len(buffer) \div BytesPerElement(kind)]]

\* new Float32Array(buffer, 0, length): a view of the first length floats
\* of the buffer, or a RangeError when the buffer is too short for them.
NewFloat32View(buffer, length) ==
    IF 4 * length > Len(buffer)
    THEN [ok |-> FALSE, error |-> "RangeError"]
    ELSE [ok |-> TRUE,
          ta |-> [kind |-> "Float32Array", buffer |-> buffer,
                  length |-> length]]

\* The bytes of element i (from 0) of a typed array.
ElementBytes(ta, i) ==
    SubSeq(ta.buffer, (i * BytesPerElement(ta.kind)) + 1,
           (i + 1) * BytesPerElement(ta.kind))

\* float32Array[j] = ta[i]: the 32-bit float that the assignment stores,
\* NaN when ta[i] is undefined.
AsFloat32(ta, i) ==
    IF i >= ta.length THEN NaN32
    ELSE CASE ta.kind = "Float32Array" -> DecodeF32(ElementBytes(ta, i))
           [] ta.kind = "Int32Array" ->
                 FloatOfInt(DecodeI32(ElementBytes(ta, i)))
           [] ta.kind = "BigInt64Array" ->
                 FloatOfInt(DecodeI64(ElementBytes(ta, i)))
           [] ta.kind = "Uint8Array" -> FloatOfInt(ElementBytes(ta, i)[1])
           [] ta.kind = "Float64Array" -> NarrowF64(ElementBytes(ta, i))

\* A new Float32Array of the given elements.
Float32ArrayOf(elems) ==
    [kind |-> "Float32Array",
     buffer |-> JoinAll([k \in 1..Len(elems) |-> EncodeF32(elems[k])]),
     length |-> Len(elems)]

\* The elements of a Float32Array, as floats.
Floats(ta) == [k \in 1..ta.length |-> DecodeF32(ElementBytes(ta, k - 1))]

\* Where the value starts after key\s*:\s* matched at i of the header, 0
\* when that does not match there.
AfterKey(h, i, key) ==
    IF Slice(h, i - 1, (i - 1) + Len(key)) # key THEN 0
    ELSE LET colon == RunEnd(h, i + Len(key), WhiteSpace) + 1 IN
         IF colon <= Len(h) /\ h[colon] = 58
         THEN RunEnd(h, colon + 1, WhiteSpace) + 1
         ELSE 0

\* header.match(/'descr'\s*:\s*'([^']+)'/): [found, group].
DescrMatch(h) ==
    LET key == <<39, 100, 101, 115, 99, 114, 39>>
        ok(i) == LET v == AfterKey(h, i, key)
                     e == RunEnd(h, v + 1, (0..65535) \ {39})
                 IN  /\ v # 0 /\ v <= Len(h) /\ h[v] = 39
                     /\ e >= v + 1 /\ e < Len(h)
        starts == {i \in 1..Len(h) : ok(i)}
    IN  IF starts = {} THEN [found |-> FALSE, group |-> << >>]
        ELSE LET i == CHOOSE x \in starts : \A y \in starts : x <= y
                 v == AfterKey(h, i, key)
             IN  [found |-> TRUE,
                  group |-> SubSeq(h, v + 1,
                                   RunEnd(h, v + 1, (0..65535) \ {39}))]

\* header.match(/'shape'\s*:\s*\(([^)]*)\)/): [found, group].
ShapeMatch(h) ==
    LET key == <<39, 115, 104, 97, 112, 101, 39>>
        ok(i) == LET v == AfterKey(h, i, key)
                     e == RunEnd(h, v + 1, (0..65535) \ {41})
                 IN  /\ v # 0 /\ v <= Len(h) /\ h[v] = 40
                     /\ e < Len(h)
        starts == {i \in 1..Len(h) : ok(i)}
    IN  IF starts = {} THEN [found |-> FALSE, group |-> << >>]
        ELSE LET i == CHOOSE x \in starts : \A y \in starts : x <= y
                 v == AfterKey(h, i, key)
             IN  [found |-> TRUE,
                  group |-> SubSeq(h, v + 1,
                                   RunEnd(h, v + 1, (0..65535) \ {41}))]

\* header.match(/'fortran_order'\s*:\s*(True|False)/): [found, group].
FortranMatch(h) ==
    LET key == <<39, 102, 111, 114, 116, 114, 97, 110, 95, 111, 114, 100, 101, 114, 39>>
        true == <<84, 114, 117, 101>>
        false == <<70, 97, 108, 115, 101>>
        word(i) == LET v == AfterKey(h, i, key) IN
                   IF v = 0 THEN << >>
                   ELSE IF Slice(h, v - 1, v + 3) = true THEN true
                   ELSE IF Slice(h, v - 1, v + 4) = false THEN false
                   ELSE << >>
        starts == {i \in 1..Len(h) : word(i) # << >>}
    IN  IF starts = {} THEN [found |-> FALSE, group |-> << >>]
        ELSE [found |-> TRUE,
              group |-> word(CHOOSE x \in starts : \A y \in starts : x <= y)]

\* descr.replace(/[<>|=]/, ''): without the first of these characters.
StripByteOrder(descr) ==
    LET at == {k \in 1..Len(descr) : descr[k] \in {60, 62, 124, 61}} IN
    IF at = {} THEN descr
    ELSE LET k == CHOOSE x \in at : \A y \in at : x <= y
         IN  SubSeq(descr, 1, k - 1) \o SubSeq(descr, k + 1, Len(descr))

\* .filter(Boolean).map(Number) of strings: the numbers of the non-empty
\* ones, for numbers written in decimal digits.
RECURSIVE NumbersOf(_)
NumbersOf(ss) ==
    IF ss = << >> THEN << >>
    ELSE IF Head(ss) = << >> THEN NumbersOf(Tail(ss))
    ELSE <<ParseDigits(Head(ss))>> \o NumbersOf(Tail(ss))

\* shapeStr === '' ? [1]
\*   : shapeStr.split(',').map(s => s.trim()).filter(Boolean).map(Number),
\* for dimensions written in decimal digits.
ParseShape(shapeStr) ==
    IF shapeStr = << >> THEN <<1>>
    ELSE LET pieces == Split(shapeStr, {44})
             trimmed == [k \in 1..Len(pieces) |-> Trim(pieces[k])]
         IN  NumbersOf(trimmed)

\* The typed array the switch on dtype builds from the payload, or the
\* error thrown.
DataOfDtype(dtype, descr, dataBuffer) ==
    IF dtype = <<102, 52>> THEN NewView("Float32Array", dataBuffer)
    ELSE IF dtype = <<102, 56>>
    THEN LET f64 == NewView("Float64Array", dataBuffer) IN
         IF ~f64.ok THEN f64
         ELSE [ok |-> TRUE,
               ta |-> Float32ArrayOf([k \in 1..f64.ta.length |->
                                         AsFloat32(f64.ta, k - 1)])]
    ELSE IF dtype = <<105, 52>> THEN NewView("Int32Array", dataBuffer)
    ELSE IF dtype = <<105, 56>>
    THEN LET i64 == NewView("BigInt64Array", dataBuffer) IN
         IF ~i64.ok THEN i64
         ELSE [ok |-> TRUE,
               ta |-> Float32ArrayOf([k \in 1..i64.ta.length |->
                                         AsFloat32(i64.ta, k - 1)])]
    ELSE IF dtype = <<117, 49>> THEN NewView("Uint8Array", dataBuffer)
    ELSE [ok |-> FALSE, error |-> "Unsupported .npy dtype"]

\* The Fortran-order branch without the transposition: the elements in
\* stored order.
ToCOrderStored(data, rows, cols) ==
    Float32ArrayOf([k \in 1..(rows * cols) |-> AsFloat32(data, k - 1)])

\* The Fortran-order branch: a new Float32Array with
\* cOrder[r * cols + c] = data[c * rows + r].
ToCOrder(data, rows, cols) ==
    Float32ArrayOf([k \in 1..(rows * cols) |->
                       AsFloat32(data, (((k - 1) % cols) * rows)
                                          + ((k - 1) \div cols))])

\* The end of parseNpy: the result is
\* new Float32Array(data.buffer, data.byteOffset, data.length), a view of
\* the bytes of data as floats, whatever the type of data.
parseNpyTail(data, shape, dtype) ==
    LET result == NewFloat32View(data.buffer, data.length) IN
    IF ~result.ok THEN result
    ELSE [ok |-> TRUE, data |-> Floats(result.ta), shape |-> shape,
          dtype |-> dtype]

\* parseNpy(buf): [ok |-> TRUE, data, shape, dtype], data being the
\* elements of the Float32Array returned, or [ok |-> FALSE, error].
parseNpy(buf) ==
    IF \E i \in 1..6 : i > Len(buf) \/ buf[i] # MAGIC[i]
    THEN [ok |-> FALSE, error |-> "Not a valid .npy file (bad magic)"]
    ELSE
    LET majorVersion == IF Len(buf) >= 7 THEN buf[7] ELSE 0
        lenBytes == IF majorVersion >= 2 THEN 4 ELSE 2
    IN
    IF Len(buf) < 8 + lenBytes
    THEN [ok |-> FALSE, error |-> "RangeError"]
    ELSE
    LET headerLen == IF majorVersion >= 2
                     THEN buf[9] + (buf[10] * 256) + (buf[11] * 65536)
                             + (buf[12] * 16777216)
                     ELSE buf[9] + (buf[10] * 256)
        headerOffset == IF majorVersion >= 2 THEN 12 ELSE 10
        headerBytes == Slice(buf, headerOffset, headerOffset + headerLen)
        header == Trim(headerBytes)
        descrMatch == DescrMatch(header)
        shapeMatch == ShapeMatch(header)
        fortranMatch == FortranMatch(header)
    IN
    IF ~descrMatch.found \/ ~shapeMatch.found
    THEN [ok |-> FALSE, error |-> "Cannot parse .npy header"]
    ELSE
    LET descr == descrMatch.group
        shape == ParseShape(Trim(shapeMatch.group))
        fortranOrder == fortranMatch.found
                           /\ fortranMatch.group = <<84, 114, 117, 101>>
        dataOffset == headerOffset + headerLen
        dataBuffer == Slice(buf, dataOffset, Len(buf))
        dtype == StripByteOrder(descr)
        data == DataOfDtype(dtype, descr, dataBuffer)
    IN
    IF ~data.ok THEN data
    ELSE parseNpyTail(IF fortranOrder /\ Len(shape) = 2
                      THEN ToCOrder(data.ta, shape[1], shape[2])
                      ELSE data.ta,
                      shape, dtype)

----------------------------------------------------------------------------
(* test/npz-loader.test.js: makeNpy, the writer of the .npy records.       *)

\* String(n) of a natural number.
RECURSIVE NumberToString(_)
NumberToString(n) ==
    IF n < 10 THEN <<48 + n>>
    ELSE Append(NumberToString(n \div 10), 48 + (n % 10))

\* s.padEnd(n, ' ')
PadEnd(s, n) == s \o [k \in 1..(n - Len(s)) |-> 32]

\* `{'descr': '${dtype}', 'fortran_order': ${order}, 'shape': (${shape}), }`
HeaderText(dtype, order, shape) ==
    <<123, 39, 100, 101, 115, 99, 114, 39, 58, 32, 39>> \o dtype
        \o <<39, 44, 32, 39, 102, 111, 114, 116, 114, 97, 110, 95, 111, 114, 100, 101, 114, 39, 58, 32>> \o order
        \o <<44, 32, 39, 115, 104, 97, 112, 101, 39, 58, 32, 40>> \o shape
        \o <<41, 44, 32, 125>>

\* header.padEnd(Math.ceil((header.length + 1) / 64) * 64 - 1, ' ') + '\n'
HeaderPadded(header) ==
    Append(PadEnd(header, ((((Len(header) + 1) + 63) \div 64) * 64) - 1), 10)

\* The record: magic, version, header length (2 bytes little-endian in
\* version 1, 4 bytes from version 2), padded header, payload.
NpyRecord(major, header, payload) ==
    LET headerPadded == HeaderPadded(header)
        headerLen == Len(headerPadded)
    IN  MAGIC \o <<major, 0>>
           \o (IF major >= 2
               THEN <<headerLen % 256, headerLen \div 256, 0, 0>>
               ELSE <<headerLen % 256, headerLen \div 256>>)
           \o headerPadded \o payload

\* shape.join(', ')
JoinShape(shape) ==
    JoinWith([k \in 1..Len(shape) |-> NumberToString(shape[k])], <<44, 32>>)

\* makeNpy(data, shape): the version-1 C-order '<f4' record of the floats.
makeNpy(data, shape) ==
    NpyRecord(1,
              HeaderText(<<60, 102, 52>>, <<70, 97, 108, 115, 101>>, Append(JoinShape(shape), 44)),
              JoinAll([k \in 1..Len(data) |-> EncodeF32(data[k])]))

\* The little-endian bytes of a 32-bit integer in two's complement.
EncodeI32(k) ==
    LET a == IF k < 0 THEN (0 - k) - 1 ELSE k
        b == <<a % 256, (a \div 256) % 256, (a \div 65536) % 256,
               a \div 16777216>>
    IN  IF k < 0 THEN [j \in 1..4 |-> 255 - b[j]] ELSE b

\* The little-endian bytes of a 64-bit integer of 32 bits.
EncodeI64(k) ==
    EncodeI32(k) \o (IF k < 0 THEN <<255, 255, 255, 255>> ELSE <<0, 0, 0, 0>>)

----------------------------------------------------------------------------
(* npz-loader.js: loadNpz.  zip.files is the sequence of the entries of    *)
(* the archive, each [name, dir, bytes]; an object is the sequence of its  *)
(* own properties, each [key, value], in insertion order.                  *)

\* name.endsWith('.npy')
EndsWithNpy(name) ==
    Len(name) >= 4 /\ SubSeq(name, Len(name) - 3, Len(name)) = <<46, 110, 112, 121>>

\* name.replace(/\.npy$/, '')
StripNpy(name) ==
    IF EndsWithNpy(name) THEN SubSeq(name, 1, Len(name) - 4) ELSE name

\* The positions in zip.files of
\* Object.entries(zip.files).filter(([name]) =>
\*     name.endsWith('.npy') && !zip.files[name].dir)
NpyEntries(files) ==
    {i \in 1..Len(files) : EndsWithNpy(files[i].name) /\ ~files[i].dir}

\* obj[key] = value on a plain object: the own property is replaced or
\* added; the key '__proto__' reaches the setter of Object.prototype, which
\* makes the value (an object) the prototype and adds no own property.  An
\* object is the sequence of its own properties and, with own |-> FALSE,
\* of its prototype once set.
ObjSet(obj, key, value) ==
    LET prop == [key |-> key, value |-> value,
                 own |-> key # <<95, 95, 112, 114, 111, 116, 111, 95, 95>>]
    IN  IF \E k \in 1..Len(obj) : obj[k].key = key
        THEN [k \in 1..Len(obj) |-> IF obj[k].key = key THEN prop ELSE obj[k]]
        ELSE Append(obj, prop)

\* Object.keys(obj)
ObjKeys(obj) == {obj[k].key : k \in {j \in 1..Len(obj) : obj[j].own}}

\* obj[key] of an own property, or of '__proto__' once set.
ObjGet(obj, key) == obj[CHOOSE k \in 1..Len(obj) : obj[k].key = key].value

\* The floats the archives hold: 0.5, 1.5, -2 and one whose four bytes
\* differ.
F32Values ==
    { [s |-> 0, e |-> 126, m |-> 0], [s |-> 0, e |-> 127, m |-> 4194304],
      [s |-> 1, e |-> 128, m |-> 0], [s |-> 1, e |-> 133, m |-> 1193046] }

MaxElems == 2

\* The shapes of n elements.
ShapesOf(n) ==
    {<<n>>, <<1, n>>, <<n, 1>>} \cup (IF n = 1 THEN {<< >>} ELSE {})

\* How an entry was written: the dtype, the order, the shape and the
\* elements in the order of the payload (floats, or ints for the integer
\* dtypes), with the bytes written.  kind is "bad" for a record that is
\* not a well-formed one of its dtype.
Made(kind, order, shape, floats, ints, bytes) ==
    [kind |-> kind, order |-> order, shape |-> shape, floats |-> floats,
     ints |-> ints, bytes |-> bytes]

\* The records makeNpy writes.
MakeNpyInputs ==
    { Made("f4", "C", shape, data, << >>, makeNpy(data, shape)) :
        <<data, shape>> \in
            { p \in SeqsUpTo(F32Values, MaxElems) \X
                    UNION { ShapesOf(n) : n \in 0..MaxElems } :
                p[2] \in ShapesOf(Len(p[1])) } }

\* A record of an integer dtype: descr, order and shape as given, the
\* payload being the ints in the width of the dtype.
IntRecord(kind, descr, order, shape, ints) ==
    Made(kind, order, shape, << >>, ints,
         NpyRecord(1,
                   HeaderText(descr,
                              IF order = "F" THEN <<84, 114, 117, 101>> ELSE <<70, 97, 108, 115, 101>>,
                              Append(JoinShape(shape), 44)),
                   JoinAll([k \in 1..Len(ints) |->
                               CASE kind = "i4" -> EncodeI32(ints[k])
                                 [] kind = "i8" -> EncodeI64(ints[k])
                                 [] kind = "u1" -> <<ints[k]>>])))

I4Inputs ==
    { IntRecord("i4", <<60, 105, 52>>, "C", <<2>>, <<1, 0 - 2>>),
      IntRecord("i4", <<60, 105, 52>>, "C", <<1>>, <<3>>),
      IntRecord("i4", <<60, 105, 52>>, "C", <<0>>, << >>),
      IntRecord("i4", <<60, 105, 52>>, "F", <<2, 2>>, <<1, 2, 3, 0 - 4>>),
      IntRecord("i4", <<60, 105, 52>>, "F", <<1, 2>>, <<70000, 5>>) }

U1Inputs ==
    { IntRecord("u1", <<124, 117, 49>>, "C", <<2>>, <<7, 200>>),
      IntRecord("u1", <<124, 117, 49>>, "C", <<4>>, <<1, 2, 3, 4>>),
      IntRecord("u1", <<124, 117, 49>>, "C", <<0>>, << >>),
      IntRecord("u1", <<124, 117, 49>>, "F", <<2, 1>>, <<7, 200>>),
      IntRecord("u1", <<124, 117, 49>>, "F", <<2, 2>>, <<1, 2, 3, 255>>) }

I8Inputs ==
    { IntRecord("i8", <<60, 105, 56>>, "C", <<2>>, <<3, 0 - 1>>),
      IntRecord("i8", <<60, 105, 56>>, "F", <<1, 2>>, <<3, 0 - 1>>) }

\* 64-bit floats: 1.5 and 0.1, which narrow to 1.5 and to 0.1 rounded.
F8Inputs ==
    { Made("f8", "C", <<2>>,
           << [s |-> 0, e |-> 127, m |-> 4194304],
              [s |-> 0, e |-> 123, m |-> 5033165] >>, << >>,
           NpyRecord(1, HeaderText(<<60, 102, 56>>, <<70, 97, 108, 115, 101>>, <<50, 44>>),
                     <<0, 0, 0, 0, 0, 0, 248, 63,
                       154, 153, 153, 153, 153, 153, 185, 63>>)) }

\* A version-1 '<f4' record of the given order and shape, the payload
\* being the floats.
FloatRecord(kind, order, shape, floats) ==
    Made(kind, order, shape, floats, << >>,
         NpyRecord(1,
                   HeaderText(<<60, 102, 52>>,
                              IF order = "F" THEN <<84, 114, 117, 101>> ELSE <<70, 97, 108, 115, 101>>,
                              Append(JoinShape(shape), 44)),
                   JoinAll([k \in 1..Len(floats) |-> EncodeF32(floats[k])])))

\* The floats 1.0, 2.0, ... n.0.
Counting(n) == [k \in 1..n |-> FloatOfInt(k)]

\* Records of two dimensions in Fortran order and in C order.
FortranInputs ==
    { FloatRecord("f4", order, shape, Counting(shape[1] * shape[2])) :
        order \in {"F", "C"},
        shape \in {<<2, 3>>, <<3, 2>>, <<2, 2>>, <<1, 3>>} }

\* Records of two dimensions whose payload is shorter or longer than the
\* shape: n floats under the shape.
MismatchInputs ==
    { FloatRecord("bad", p[1], p[2], Counting(p[3])) :
        p \in { <<"C", <<2, 2>>, 1>>, <<"C", <<2, 2>>, 3>>,
                <<"C", <<1, 1>>, 2>>, <<"C", <<2, 1>>, 0>>,
                <<"F", <<2, 2>>, 3>>, <<"F", <<1, 2>>, 3>> } }

\* A well-formed record makeNpy writes, from which the malformed ones
\* are made.
GoodNpy == makeNpy(<<[s |-> 0, e |-> 126, m |-> 0]>>, <<1>>)

\* Records that are no well-formed record of a supported dtype: a bad
\* magic, a buffer shorter than the magic, a header cut before the shape,
\* a header without descr, an unsupported dtype, a payload that is no
\* whole number of elements; and records parseNpy reads otherwise than
\* they were written: a header length that runs past the buffer, version
\* 2, a big-endian descr, a shape of more elements than the payload, and
\* the shape ().
OtherInputs ==
    { Made("bad", "C", <<1>>, << >>, << >>, bytes) :
        bytes \in
          { [GoodNpy EXCEPT ![1] = 0],
            SubSeq(GoodNpy, 1, 3),
            SubSeq(GoodNpy, 1, 8),
            SubSeq(GoodNpy, 1, 30),
            SubSeq(GoodNpy, 1, 72),
            NpyRecord(1, <<123, 39, 115, 104, 97, 112, 101, 39, 58, 32, 40, 49, 44, 41, 44, 32, 125>>, <<0, 0, 0, 63>>),
            NpyRecord(1, HeaderText(<<60, 102, 50>>, <<70, 97, 108, 115, 101>>, <<49, 44>>), <<0, 60>>),
            NpyRecord(1, HeaderText(<<60, 102, 52>>, <<70, 97, 108, 115, 101>>, <<49, 44>>), <<0, 0, 63>>),
            NpyRecord(2, HeaderText(<<60, 102, 52>>, <<70, 97, 108, 115, 101>>, <<49, 44>>), <<0, 0, 0, 63>>),
            NpyRecord(1, HeaderText(<<62, 102, 52>>, <<70, 97, 108, 115, 101>>, <<49, 44>>), <<63, 0, 0, 0>>),
            NpyRecord(1, HeaderText(<<60, 102, 52>>, <<70, 97, 108, 115, 101>>, <<51, 44>>), <<0, 0, 0, 63>>),
            NpyRecord(1, HeaderText(<<60, 102, 52>>, <<84, 114, 117, 101>>, <<50, 44, 32, 50>>), <<0, 0, 0, 63>>),
            NpyRecord(1, HeaderText(<<60, 102, 52>>, <<70, 97, 108, 115, 101>>, << >>), <<0, 0, 0, 63>>) } }

NpyInputs ==
    MakeNpyInputs \cup I4Inputs \cup U1Inputs \cup I8Inputs \cup F8Inputs
        \cup OtherInputs \cup FortranInputs \cup MismatchInputs

\* The records that archives of two entries are made of.
PairInputs ==
    { Made("f4", "C", <<1>>, <<[s |-> 0, e |-> 126, m |-> 0]>>, << >>, GoodNpy),
      Made("bad", "C", <<1>>, << >>, << >>, [GoodNpy EXCEPT ![1] = 0]),
      Made("bad", "C", <<1>>, << >>, << >>, SubSeq(GoodNpy, 1, 30)),
      Made("bad", "C", <<1>>, << >>, << >>,
           NpyRecord(1, HeaderText(<<60, 102, 50>>, <<70, 97, 108, 115, 101>>, <<49, 44>>), <<0, 60>>)),
      IntRecord("i4", <<60, 105, 52>>, "C", <<1>>, <<3>>),
      IntRecord("u1", <<124, 117, 49>>, "C", <<2>>, <<7, 200>>) }

\* An entry of zip.files with how it was written.
File(name, dir, made) == [name |-> name, dir |-> dir, made |-> made]

\* A directory and a file that is no .npy, which an archive may hold.
ExtraFiles ==
    << File(<<118, 46, 110, 112, 121, 47>>, TRUE, Made("bad", "C", << >>, << >>, << >>, << >>)),
       File(<<114, 101, 97, 100, 109, 101, 46, 116, 120, 116>>, FALSE, Made("bad", "C", << >>, << >>, << >>, GoodNpy)) >>

\* The archives: one entry of any record, or two entries, with or without
\* the extra files before them, or named '__proto__.npy' and 'b.npy'.
ZipInputs ==
    LET a == <<97, 46, 110, 112, 121>>
        b == <<98, 46, 110, 112, 121>>
        one == { <<File(a, FALSE, m)>> : m \in NpyInputs }
        proto == <<95, 95, 112, 114, 111, 116, 111, 95, 95, 46, 110, 112, 121>>
        two == { <<File(a, FALSE, p[1]), File(b, FALSE, p[2])>> :
                    p \in PairInputs \X PairInputs }
        named == { <<File(proto, FALSE, m), File(b, FALSE, m)>> :
                      m \in PairInputs }
    IN  one \cup two \cup { ExtraFiles \o fs : fs \in two } \cup named

\* const zip = await JSZip.loadAsync(npzBuffer): the archive is read.
NpzInit ==
    /\ zpc = "start"
    /\ zfiles \in ZipInputs
    /\ zstage = << >>
    /\ zresult = << >>
    /\ zreturned = << >>
    /\ zerror = ""
    /\ TokIdle /\ ChunkIdle /\ GenIdle /\ PreIdle /\ PhonIdle /\ WorkerIdle

\* const result = {}; the entries are filtered and every callback of
\* entries.map runs to its await file.async('arraybuffer'); loadNpz awaits
\* Promise.all.
LoadNpzStart ==
    /\ zpc = "start"
    /\ zstage' = [i \in 1..Len(zfiles) |->
                     IF i \in NpyEntries(zfiles) THEN "reading"
                     ELSE "skipped"]
    /\ zpc' = "awaiting"
    /\ UNCHANGED <<zfiles, zresult, zreturned, zerror>>

\* The callback of entry i with a throwing entry dropped instead of
\* rejecting.
EntryContinuesSkipping(i) ==
    /\ zpc # "start"
    /\ i \in 1..Len(zfiles)
    /\ zstage[i] = "reading"
    /\ LET parsed == parseNpy(zfiles[i].made.bytes) IN
       /\ zresult' = IF parsed.ok
                     THEN ObjSet(zresult, StripNpy(zfiles[i].name), parsed)
                     ELSE zresult
       /\ zstage' = [zstage EXCEPT ![i] = "fulfilled"]
    /\ UNCHANGED <<zfiles, zpc, zreturned, zerror>>

\* file.async of entry i resolves, in any order among the entries, and the
\* callback continues: the key, parseNpy and the assignment to result.  An
\* error thrown rejects the callback's promise, and the first rejection
\* rejects Promise.all and with it loadNpz.
EntryContinues(i) ==
    /\ zpc # "start"
    /\ i \in 1..Len(zfiles)
    /\ zstage[i] = "reading"
    /\ LET parsed == parseNpy(zfiles[i].made.bytes) IN
       IF parsed.ok
       THEN /\ zresult' = ObjSet(zresult, StripNpy(zfiles[i].name), parsed)
            /\ zstage' = [zstage EXCEPT ![i] = "fulfilled"]
            /\ UNCHANGED <<zpc, zerror>>
       ELSE /\ zstage' = [zstage EXCEPT ![i] = "rejected"]
            /\ IF zpc = "awaiting"
               THEN zpc' = "rejected" /\ zerror' = parsed.error
               ELSE UNCHANGED <<zpc, zerror>>
            /\ UNCHANGED zresult
    /\ UNCHANGED <<zfiles, zreturned>>

\* Every promise is fulfilled: Promise.all resolves and loadNpz returns
\* result.
LoadNpzReturns ==
    /\ zpc = "awaiting"
    /\ \A i \in 1..Len(zfiles) : zstage[i] \in {"fulfilled", "skipped"}
    /\ zpc' = "resolved"
    /\ zreturned' = zresult
    /\ UNCHANGED <<zfiles, zstage, zresult, zerror>>

NpzNext ==
    /\ \/ LoadNpzStart
       \/ \E i \in DOMAIN zfiles : EntryContinues(i)
       \/ LoadNpzReturns
    /\ UNCHANGED <<tokVars, chunkVars, genVars, preVars, phonVars, workerVars>>

SpecNpz == NpzInit /\ [][NpzNext]_vars

----------------------------------------------------------------------------
(* Properties of _prepareInputs within generate and stream.                *)

\* The internal key the call's voice resolves to.
RequestedKey == ResolveVoice(tts, OptVoice)

\* The style row the prepared inputs were cut from.
StyleRow == ginputs.style[1].row

\* C9: the style row index is min(number of content ids, numStyles - 1),
\* the content ids being the ids without the three framing ids (leading 0,
\* sentinel 10, trailing 0): no content id selects row 0, numStyles or more
\* select row numStyles - 1.
C9_RefIdCountsContentIds ==
    gpc = "infer" =>
        StyleRow = Min(Len(ginputs.input_ids) - 3,
                       tts.voices[RequestedKey].shape[1] - 1)

\* C10: when the requested voice, resolved through the alias table, is
\* not a key of the archive, _prepareInputs fails and no inference request
\* is made; and the style of every prepared input and of every inference
\* request is cut from the entry of the requested voice, never another's.
C10_MissingVoiceFails ==
    /\ RequestedKey \notin DOMAIN tts.voices =>
          /\ infLog = << >>
          /\ ginputs = << >>
          /\ gpc \in {"start", "loop", "phonemizing", "failed", "done"}
          /\ gpc = "done" => gchunks = << >>
          /\ (gpc = "failed" /\ gerror.name # "PhonemizerFailure")
                => gerror.voice = RequestedKey
    /\ gpc = "infer" =>
          \A i \in 1..Len(ginputs.style) :
              ginputs.style[i].voice = RequestedKey
    /\ \A n \in 1..Len(infLog) :
          \A i \in 1..Len(infLog[n].style) :
              infLog[n].style[i].voice = RequestedKey

\* A call naming a voice the archive lacks failed in _prepareInputs after
\* phonemize returned, no inference request made.
C10_Witness ==
    /\ gpc = "failed"
    /\ "voice" \in DOMAIN call.opts
    /\ RequestedKey \notin DOMAIN tts.voices
    /\ Len(phonLog) = 1
    /\ infLog = << >>

\* C11: the voice-not-found error carries the voice name as the caller
\* gave it (the friendly name when an alias was given) and the keys of the
\* loaded archive.
C11_ErrorCarriesRequestedName ==
    (gpc = "failed" /\ gerror.name = "Error") =>
        /\ gerror.voice = OptVoice
        /\ gerror.available = DOMAIN tts.voices

\* The samples chunk i contributes: its output of L samples without the
\* last 5000.
Kept(i) == IF outLog[i] - 5000 > 0 THEN outLog[i] - 5000 ELSE 0

RECURSIVE KeptBefore(_)
KeptBefore(i) == IF i <= 1 THEN 0 ELSE KeptBefore(i - 1) + Kept(i - 1)

\* C12: generate returns the concatenation, in chunk order, of each chunk's
\* inference output without its last 5000 samples: an output of L samples
\* contributes its first max(0, L - 5000), so the result has the sum of
\* max(0, L_i - 5000) samples.
C12_GenerateConcatenatesTrimmed ==
    (gpc = "done" /\ call.mode = "generate") =>
        /\ Len(outLog) = Len(gchunks)
        /\ Len(gresult) = KeptBefore(Len(gchunks) + 1)
        /\ \A i \in 1..Len(gchunks) :
              \A k \in 1..Kept(i) : gresult[KeptBefore(i) + k] = <<i, k>>

\* generate returned for two chunks, one output longer than the trim and
\* one shorter.
C12_Witness ==
    /\ gpc = "done"
    /\ call.mode = "generate"
    /\ Len(gchunks) = 2
    /\ \E i, j \in 1..2 : outLog[i] > 5000 /\ outLog[j] < 5000
    /\ gresult # << >>

\* C13: stream yields one {text, audio} item per chunk, in chunk order,
\* each pairing the chunk's text with that chunk's waveform; when the item
\* of chunk i is yielded no phonemizer or inference call for a later chunk
\* has been started.
C13_StreamYieldsPerChunk ==
    call.mode = "stream" =>
        /\ \A i \in 1..Len(yielded) :
              /\ yielded[i].text = gchunks[i]
              /\ yielded[i].audio = [k \in 1..Kept(i) |-> <<i, k>>]
        /\ gpc = "yielded" =>
              /\ Len(yielded) = gidx
              /\ \A n \in 1..Len(phonLog) : phonLog[n].chunk <= gidx
              /\ \A n \in 1..Len(infLog) : infLog[n].chunk <= gidx
        /\ gpc = "done" => Len(yielded) = Len(gchunks)
        /\ \A n \in 1..Len(phonLog) : phonLog[n].chunk = n
        /\ \A n \in 1..Len(infLog) : infLog[n].chunk = n

\* The item of the first of two chunks is yielded.
C13_Witness ==
    /\ call.mode = "stream"
    /\ gpc = "yielded"
    /\ gidx = 1
    /\ Len(gchunks) = 2
    /\ Len(yielded) = 1
    /\ Len(phonLog) = 1

\* C25: when phonemize or session.run fails on chunk k, generate and
\* stream fail at once with that failure: no chunk is handed twice to
\* phonemize or to session.run, a failure is never passed over, and after
\* the failure no call is made for chunk k again or for a later chunk.
C25_FailurePropagatesAtOnce ==
    /\ [](/\ gerror # << >> => gpc = "failed"
          /\ \A n \in 1..Len(phonLog) : phonLog[n].chunk = n
          /\ \A n \in 1..Len(infLog) : infLog[n].chunk = n
          /\ gpc = "failed" =>
                /\ Len(phonLog) = gidx
                /\ Len(infLog) <= gidx)
    /\ [][gpc = "failed" =>
             /\ gpc' = "failed" /\ gerror' = gerror
             /\ phonLog' = phonLog /\ infLog' = infLog]_vars

\* session.run failed on the first of two chunks: the call has failed
\* with that failure, the second chunk untouched.
C25_Witness ==
    /\ gpc = "failed"
    /\ gerror.name = "InferenceFailure"
    /\ gidx = 1
    /\ Len(gchunks) = 2
    /\ Len(phonLog) = 1 /\ Len(infLog) = 1

\* C26: when the consumer of stream stops iterating after the item of
\* chunk i, no call to phonemize or to session.run is ever made for a
\* chunk after i.
C26_StopEndsCalls ==
    /\ [](gpc = "returned" =>
             /\ Len(yielded) = gidx
             /\ \A n \in 1..Len(phonLog) : phonLog[n].chunk <= gidx
             /\ \A n \in 1..Len(infLog) : infLog[n].chunk <= gidx)
    /\ [][gpc = "returned" =>
             /\ gpc' = "returned"
             /\ phonLog' = phonLog /\ infLog' = infLog]_vars

\* The consumer stopped after the item of the first of two chunks.
C26_Witness ==
    /\ call.mode = "stream"
    /\ gpc = "returned"
    /\ gidx = 1
    /\ Len(gchunks) = 2
    /\ Len(phonLog) = 1 /\ Len(infLog) = 1

----------------------------------------------------------------------------
(* Properties of number_to_words and TextPreprocessor.process.             *)

\* The multiples of 100 from 100 to 9999 that are not multiples of 1000.
IsHundreds(n) == n >= 100 /\ n <= 9999 /\ n % 100 = 0 /\ n % 1000 # 0

\* C17 as stated: for every multiple of 100 in 100..9999 that is not a
\* multiple of 1000, number_to_words gives the words of n/100 followed by
\* " hundred", never the thousand form; and 0 gives "zero".
C17_HundredsForm ==
    ppc = "number_to_words" =>
        /\ IsHundreds(pn) =>
              pwords = number_to_words(pn \div 100) \o <<32, 104, 117, 110, 100, 114, 101, 100>>
        /\ pn = 0 => pwords = <<122, 101, 114, 111>>

\* C17 amended: that form is given when n/100 is below 20 (100 to 1900;
\* 1200 gives "twelve hundred"); from 2100 to 9900 the result is the words
\* of the thousands, " thousand ", the words of the hundreds digit and
\* " hundred"; and 0 gives "zero".
C17_HundredsFormBelowTwenty ==
    ppc = "number_to_words" =>
        /\ (IsHundreds(pn) /\ pn \div 100 < 20) =>
              pwords = number_to_words(pn \div 100) \o <<32, 104, 117, 110, 100, 114, 101, 100>>
        /\ (IsHundreds(pn) /\ pn \div 100 >= 20) =>
              pwords = number_to_words(pn \div 1000) \o <<32, 116, 104, 111, 117, 115, 97, 110, 100, 32>>
                          \o number_to_words((pn % 1000) \div 100)
                          \o <<32, 104, 117, 110, 100, 114, 101, 100>>
        /\ pn = 1200 =>
              pwords = <<116, 119, 101, 108, 118, 101, 32, 104, 117, 110, 100, 114, 101, 100>>
        /\ pn = 0 => pwords = <<122, 101, 114, 111>>

\* number_to_words(1200) returned "twelve hundred".
C17_Witness ==
    /\ ppc = "number_to_words"
    /\ pn = 1200
    /\ pwords = _ONES[13] \o <<32, 104, 117, 110, 100, 114, 101, 100>>

\* C18: with the default configuration process expands a phone number
\* NNN-NNN-NNNN or NNN-NNNN digit by digit into the digits' words; no
\* earlier rule rewrites it first.
C18_PhoneNumbersSpelled ==
    ppc = "process" =>
        \A i \in {1, 3}, lens \in {<<3, 3, 4>>, <<3, 4>>} :
            (/\ i <= Len(ptext)
             /\ PhoneAt(ptext, i, lens)
             /\ PhoneMatch(ptext, i, lens).to = Len(ptext))
                => pout = SubSeq(ptext, 1, i - 1)
                             \o PhoneMatch(ptext, i, lens).repl

\* C14: in generate and stream the normalizer runs before the chunker: the
\* chunker receives the normalized text, and each chunk goes to the
\* phonemizer as the chunker produced it.
C14_NormalizerBeforeChunker ==
    (gpc # "start" /\ OptClean) =>
        /\ gchunks = _chunkText(process(KittenConfig, call.text))
        /\ \A n \in 1..Len(phonLog) :
              phonLog[n].text = gchunks[phonLog[n].chunk]

\* Whether parseNpy throws on entry i of the archive.
ParseFails(i) == ~parseNpy(zfiles[i].made.bytes).ok

\* What loadNpz returned under the name of entry i.
Returned(i) == ObjGet(zreturned, StripNpy(zfiles[i].name))

\* C15: when parseNpy fails on any entry of the archive (bad magic, a
\* truncated or unparseable header, an unsupported dtype), loadNpz fails as
\* a whole: it never resolves and the caller obtains no mapping, not even
\* of the entries that parsed, in whatever order the entries complete; a
\* mapping is obtained only after every entry was parsed.
C15_AnyFailureFailsLoad ==
    /\ (\E i \in NpyEntries(zfiles) : ParseFails(i))
          => zpc # "resolved" /\ zreturned = << >>
    /\ zpc = "rejected" => zreturned = << >>
    /\ zpc = "resolved"
          => \A i \in NpyEntries(zfiles) : zstage[i] = "fulfilled"

\* loadNpz was rejected by the second entry after the first entry had
\* been parsed and assigned to result.
C15_Witness ==
    /\ zpc = "rejected"
    /\ Len(zfiles) = 2
    /\ zstage = <<"fulfilled", "rejected">>
    /\ Len(zresult) = 1
    /\ zreturned = << >>

\* C16: a version-1 C-order '<f4' record written as makeNpy writes it
\* (magic, version, 2-byte little-endian header length, padded header,
\* payload) of shape S and floats V is loaded by loadNpz with shape S and
\* data V, element for element.
C16_MakeNpyRoundTrip ==
    zpc = "resolved" =>
        \A i \in NpyEntries(zfiles) :
            LET made == zfiles[i].made IN
            (made.kind = "f4" /\ made.bytes = makeNpy(made.floats, made.shape))
                => /\ Returned(i).shape = made.shape
                   /\ Returned(i).data = made.floats

\* loadNpz returned a record of shape (1, 2) whose floats are -2 and the
\* float of four different bytes.
C16_Witness ==
    /\ zpc = "resolved"
    /\ \E i \in NpyEntries(zfiles) :
          /\ zfiles[i].made.bytes
                = makeNpy(zfiles[i].made.floats, zfiles[i].made.shape)
          /\ zfiles[i].made.shape = <<1, 2>>
          /\ zfiles[i].made.floats
                = <<[s |-> 1, e |-> 128, m |-> 0],
                    [s |-> 1, e |-> 133, m |-> 1193046]>>
          /\ Returned(i).data = zfiles[i].made.floats

\* The integers of a record in the order of the shape (C order): as
\* stored for a C-order record, transposed for a Fortran-order record of
\* two dimensions.
LogicalInts(made) ==
    IF made.order = "F" /\ Len(made.shape) = 2
    THEN [k \in 1..Len(made.ints) |->
             made.ints[(((k - 1) % made.shape[2]) * made.shape[1])
                          + ((k - 1) \div made.shape[2]) + 1]]
    ELSE made.ints

\* C19: an i4 entry is exposed as 32-bit floats numerically equal to the
\* integers stored (converted, not bit-cast), for C-order and for
\* Fortran-order records.
C19_Int32ConvertedNumerically ==
    zpc = "resolved" =>
        \A i \in NpyEntries(zfiles) :
            zfiles[i].made.kind = "i4"
                => Returned(i).data
                      = [k \in 1..Len(zfiles[i].made.ints) |->
                            FloatOfInt(LogicalInts(zfiles[i].made)[k])]

\* C20: a u1 entry of at least one element loads successfully, with one
\* element per byte whose value is the byte's.
C20_Uint8LoadsPerByte ==
    \A i \in NpyEntries(zfiles) :
        (zfiles[i].made.kind = "u1" /\ Len(zfiles[i].made.ints) >= 1)
            => /\ zpc # "start" => zstage[i] # "rejected"
               /\ zpc = "resolved"
                     => Returned(i).data
                           = [k \in 1..Len(zfiles[i].made.ints) |->
                                 FloatOfInt(LogicalInts(zfiles[i].made)[k])]


\* The elements of a record as floats, in the order of the payload.
StoredFloats(made) ==
    IF made.kind \in {"i4", "i8", "u1"}
    THEN [k \in 1..Len(made.ints) |-> FloatOfInt(made.ints[k])]
    ELSE made.floats

\* The number of elements of a shape.
RECURSIVE Product(_)
Product(shape) ==
    IF shape = << >> THEN 1 ELSE Head(shape) * Product(Tail(shape))

\* C21: of a record of shape [rows, cols] in Fortran order, whose payload
\* holds rows * cols elements, element (r, c) is exposed at index
\* r * cols + c and is the element at index c * rows + r of the payload; a
\* C-order record of floats is exposed in stored order.
C21_FortranTransposed ==
    zpc = "resolved" =>
        \A i \in NpyEntries(zfiles) :
            LET made == zfiles[i].made
                stored == StoredFloats(made)
            IN  /\ (/\ made.kind \in {"f4", "i4", "i8", "u1"}
                    /\ made.order = "F" /\ Len(made.shape) = 2)
                      => \A r \in 0..(made.shape[1] - 1),
                            c \in 0..(made.shape[2] - 1) :
                            Returned(i).data[(r * made.shape[2]) + c + 1]
                               = stored[(c * made.shape[1]) + r + 1]
                /\ (made.kind \in {"f4", "f8", "i8"} /\ made.order = "C")
                      => Returned(i).data = stored

\* loadNpz returned a Fortran-order record of shape (2, 3), whose data is
\* not in stored order.
C21_Witness ==
    /\ zpc = "resolved"
    /\ \E i \in NpyEntries(zfiles) :
          /\ zfiles[i].made.kind = "f4" /\ zfiles[i].made.order = "F"
          /\ zfiles[i].made.shape = <<2, 3>>
          /\ Returned(i).data # zfiles[i].made.floats
          /\ Returned(i).data[2] = zfiles[i].made.floats[3]

\* C22: every entry of two dimensions that loadNpz returns has
\* data.length = shape[0] * shape[1], whatever the length of the payload in
\* the archive.
C22_DataLengthIsShapeProduct ==
    zpc = "resolved" =>
        \A i \in NpyEntries(zfiles) :
            Len(Returned(i).shape) = 2
                => Len(Returned(i).data) = Product(Returned(i).shape)

\* C23: after a successful loadNpz the keys of the result are the names of
\* the archive's '.npy' entries that are no directories, without the
\* extension, and each key holds the array parsed from its own entry, in
\* whatever order the entries completed.
C23_KeysAreEntryNames ==
    zpc = "resolved" =>
        /\ ObjKeys(zreturned)
              = {StripNpy(zfiles[i].name) : i \in NpyEntries(zfiles)}
        /\ \A i \in NpyEntries(zfiles) :
              Returned(i) = parseNpy(zfiles[i].made.bytes)


\* C24: the speed handed to session.run is the requested speed multiplied
\* by the configured prior of the resolved voice when the configuration
\* has a prior for it, and the requested speed when it has none.
C24_SpeedTimesPrior ==
    \A n \in 1..Len(infLog) :
        infLog[n].speed
           = IF RequestedKey \in DOMAIN tts.speedPriors
             THEN OptSpeed * tts.speedPriors[RequestedKey]
             ELSE OptSpeed

\* C24, amended: the prior multiplies the speed when the configuration has
\* a prior other than 0 for the resolved voice; with no prior, or a prior
\* of 0, the requested speed is handed over unchanged.
C24_SpeedTimesNonZeroPrior ==
    \A n \in 1..Len(infLog) :
        infLog[n].speed
           = IF /\ RequestedKey \in DOMAIN tts.speedPriors
                /\ tts.speedPriors[RequestedKey] # 0
             THEN OptSpeed * tts.speedPriors[RequestedKey]
             ELSE OptSpeed

\* session.run was handed the speed 6: the requested 3 times the prior 2
\* of the voice the alias resolved to.
C24_Witness ==
    /\ infLog # << >>
    /\ OptSpeed = 3
    /\ RequestedKey \in DOMAIN tts.speedPriors
    /\ tts.speedPriors[RequestedKey] = 2
    /\ infLog[1].speed = 6


\* C27: the phonemizer engine is constructed at most once: for any number
\* of phonemize calls, also calls that start while an earlier call's
\* initialization is still awaiting, one eSpeakNGWorker is ever created
\* and every call uses it.
C27_OneEspeakWorker ==
    /\ workers <= 1
    /\ \A c, d \in DOMAIN phpc :
          (phinst[c] # 0 /\ phinst[d] # 0) => phinst[c] = phinst[d]


\* The generate handlers whose session.run on instance i is in flight.
InFlight(i) == {m \in DOMAIN wpc : wpc[m] = "inferring" /\ winst[m] = i}

\* C28: at most one inference request is in flight on a model instance at
\* any time: the worker never has two generate requests running inference
\* on the same instance at once, whatever messages arrive.
C28_OneInferenceInFlight ==
    \A i \in DOMAIN wmodels : Cardinality(InFlight(i)) <= 1

\* C29: in the worker a generate request never runs against a model
\* instance that was released or is being released: the instance a
\* generate handler runs tts.generate on is loaded, for every interleaving
\* of init and generate messages.
C29_GenerateOnLoadedModel ==
    \A m \in DOMAIN wpc :
        wpc[m] \in {"generating", "inferring"}
            => wmodels[winst[m]] = "loaded"

\* The replies posted with the id of message m.
RepliesTo(m) ==
    {k \in 1..Len(wreplies) : wreplies[k].id = wmsgs[m].id}

\* Whether an init-done was posted before reply k.
InitDoneBefore(k) == \E j \in 1..(k - 1) : wreplies[j].type = "init-done"

\* C30: a generate message handled before any init has completed is
\* answered with 'error', never with 'generate-done'; and every init or
\* generate message is answered with exactly one reply of its kind
\* ('init-done' or 'error', 'generate-done' or 'error') that carries its id:
\* none while its handler runs, one from its end on, and every handler
\* comes to its end.
C30_OneReplyPerRequest ==
    /\ [](\A m \in DOMAIN wpc :
             /\ wmsgs[m].type \in {"init", "generate"} =>
                   /\ Cardinality(RepliesTo(m))
                         = IF wpc[m] = "done" THEN 1 ELSE 0
                   /\ \A k \in RepliesTo(m) :
                         wreplies[k].type
                            \in {"error",
                                 IF wmsgs[m].type = "init" THEN "init-done"
                                 ELSE "generate-done"}
             /\ (wmsgs[m].type = "generate" /\ wpc[m] # "queued"
                    /\ winst[m] = 0)
                   => (wpc[m] = "done"
                          /\ \A k \in RepliesTo(m) :
                                wreplies[k].type = "error")
             /\ \A k \in RepliesTo(m) :
                   wreplies[k].type = "generate-done" => InitDoneBefore(k))
    /\ <>(\A m \in DOMAIN wpc : wpc[m] = "done")

\* A generate handled while the first init was still loading was answered
\* with 'error', the init with 'init-done' after it, and a later generate
\* with 'generate-done'.
C30_Witness ==
    /\ wmsgs # << >>
    /\ wmsgs[1].type = "init" /\ wmsgs[2].type = "generate"
    /\ wmsgs[3].type = "generate"
    /\ wreplies = << [type |-> "error", id |-> wmsgs[2].id],
                     [type |-> "init-done", id |-> wmsgs[1].id],
                     [type |-> "generate-done", id |-> wmsgs[3].id] >>


=============================================================================
